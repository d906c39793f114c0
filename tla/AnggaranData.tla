---------------------------- MODULE AnggaranData ----------------------------
(***************************************************************************)
(* The rows of table anggaran_node, the requests that change them and the   *)
(* row values their statements compute                                      *)
(* (backend/internal/api/handlers/anggaran.go, backend/migrations).         *)
(*                                                                         *)
(* A row is identified by its key path: the unique index on                 *)
(* (parent_id, kode, source) makes the path of codes from the root a key of *)
(* the table, and no statement changes parent_id, kode or source.  Parent   *)
(* is therefore a constant and a table says which nodes have a row.         *)
(*                                                                         *)
(* Amounts are DECIMAL(19,4) columns: the whole numbers up to MaxAmount.    *)
(* Requests and files carry them as text, which need not be a number.      *)
(***************************************************************************)
EXTENDS Integers, FiniteSets, Functions

CONSTANTS
    Node,        \* key paths a row may have
    Parent,      \* path of the parent, NoNode for a root
    Depth,       \* length of the path
    Tahun,       \* budget years
    MaxAmount,   \* largest value of an amount column
    Request,     \* requests the clients may send
    NoNode, NoRow, Clean, Keep,
    Garbled      \* a text that is no decimal number

Amount == -MaxAmount .. MaxAmount
Persen == -99999 .. 99999          \* hundredths of a percent

Row == [tahun : Tahun, pagu : Amount, lock : Amount, lalu : Amount,
        ini : Amount, sd : Amount, persen : Persen, sisa : Amount]

\* mustDecimalNumeric: what a text of a request is stored as.
Decimal(v) == IF v = Garbled THEN 0 ELSE v

AmountText == Amount \cup {Garbled}

\* The values a node of an import file carries: all columns but the year.
FileRow == [pagu : AmountText, lock : AmountText, lalu : AmountText, ini : AmountText,
            sd : AmountText, persen : Persen \cup {Garbled}, sisa : AmountText]

\* A file names a node only below a node it names, or as a root.
FileNodes == {S \in SUBSET Node : \A n \in S : Parent[n] \in S \cup {NoNode}}

UpdateRequest == [kind : {"update"}, node : Node, pagu : AmountText \cup {Keep},
                  lalu : AmountText \cup {Keep}, ini : AmountText \cup {Keep}]
LockRequest == [kind : {"lock"}, node : Node, lock : AmountText]
DeleteRequest == [kind : {"delete"}, node : Node]
ImportRequest(r) == /\ r.kind = "import" /\ r.tahun \in Tahun
                    /\ DOMAIN r.file \in FileNodes
                    /\ r.file \in [DOMAIN r.file -> FileRow]
RolloverRequest == [kind : {"rollover"}]
NoRequest == [kind |-> "none"]

NodeRequest == UpdateRequest \cup LockRequest \cup DeleteRequest

ASSUME TreeAssumption ==
    /\ IsFiniteSet(Node) /\ NoNode \notin Node
    /\ Parent \in [Node -> Node \cup {NoNode}]
    /\ Depth \in [Node -> Nat]
    /\ \A n \in Node : Parent[n] # NoNode => Depth[Parent[n]] < Depth[n]

ASSUME ValueAssumption ==
    /\ MaxAmount \in Nat
    /\ NoRow \notin Row /\ Clean \notin Row /\ Clean # NoRow
    /\ Garbled \notin Amount \cup Persen /\ Keep \notin AmountText

ASSUME RequestAssumption == \A r \in Request :
    r \in NodeRequest \cup RolloverRequest \/ ImportRequest(r)

Table == [Node -> Row \cup {NoRow}]
EmptyTable == [n \in Node |-> NoRow]

-----------------------------------------------------------------------------
(* What the statements compute.                                            *)

Children(T, p) == {c \in Node : Parent[c] = p /\ T[c] # NoRow}

\* SELECT COALESCE(SUM(f), 0) FROM anggaran_node WHERE parent_id = p
Total(T, p, f) == SumFunction([c \in Children(T, p) |-> T[c][f]])

\* 100 * real / pagu rounded to DECIMAL(5,2), in hundredths.
Percent(pagu, real) ==
    IF pagu <= 0 THEN 0
    ELSE IF real >= 0 THEN (20000 * real + pagu) \div (2 * pagu)
         ELSE -((20000 * (-real) + pagu) \div (2 * pagu))

\* SET column = COALESCE($new, column)
Coalesce(new, old) == IF new = Keep THEN old ELSE Decimal(new)

\* The derived columns, as UpdateAnggaranNode recomputes them.
Derive(row) ==
    LET real == row.lalu + row.ini
    IN  [row EXCEPT !.sd = real, !.sisa = row.pagu - real,
                    !.persen = Percent(row.pagu, real)]

\* The columns of the request that are not NULL.
Edited(row, r) == [row EXCEPT !.pagu = Coalesce(r.pagu, row.pagu),
                              !.lalu = Coalesce(r.lalu, row.lalu),
                              !.ini = Coalesce(r.ini, row.ini)]

\* Variant: a roll-up that leaves out realisasi_periode_ini.
RollupRowNoIni(kind, row, T, p) ==
    CASE kind = "update" -> [row EXCEPT !.pagu = Total(T, p, "pagu"),
                                        !.lalu = Total(T, p, "lalu")]
      [] kind = "lock" -> [row EXCEPT !.lock = Total(T, p, "lock")]
      [] kind = "delete" -> [row EXCEPT !.pagu = Total(T, p, "pagu"),
                                        !.lock = Total(T, p, "lock"),
                                        !.lalu = Total(T, p, "lalu")]

\* The columns a handler sums over the children of p, read from snapshot T.
RollupRow(kind, row, T, p) ==
    CASE kind = "update" -> [row EXCEPT !.pagu = Total(T, p, "pagu"),
                                        !.lalu = Total(T, p, "lalu"),
                                        !.ini = Total(T, p, "ini")]
      [] kind = "lock" -> [row EXCEPT !.lock = Total(T, p, "lock")]
      [] kind = "delete" -> [row EXCEPT !.pagu = Total(T, p, "pagu"),
                                        !.lock = Total(T, p, "lock"),
                                        !.lalu = Total(T, p, "lalu"),
                                        !.ini = Total(T, p, "ini")]

\* INSERT ... ON CONFLICT DO UPDATE SET every column of the file but the year.
Upserted(old, f, tahun) ==
    [tahun |-> IF old = NoRow THEN tahun ELSE old.tahun,
     pagu |-> Decimal(f.pagu), lock |-> Decimal(f.lock), lalu |-> Decimal(f.lalu),
     ini |-> Decimal(f.ini), sd |-> Decimal(f.sd), persen |-> Decimal(f.persen),
     sisa |-> Decimal(f.sisa)]

\* RolloverAnggaran's SET list.
RolledOver(row) == [row EXCEPT !.lalu = row.sd, !.ini = 0,
                               !.sisa = row.pagu - row.sd]

\* The columns derived from pagu, lalu and ini hold what these say.
Fresh(row) ==
    /\ row.sd = row.lalu + row.ini
    /\ row.sisa = row.pagu - row.sd
    /\ row.persen = Percent(row.pagu, row.sd)

=============================================================================
