----------------------------- MODULE MergeView -----------------------------
(***************************************************************************)
(* displayTree of AnggaranPage: the rows of the RKKS file with the          *)
(* realisasi of the FA rows they seem to be.  The two files write codes      *)
(* differently, so a row is looked for by its code, by the last segment, as  *)
(* an ending, and by the codes above it, and taken when it is the only one.  *)
(* A pure function, like TreeView.                                         *)
(***************************************************************************)
EXTENDS TreeView

CONSTANT Codes   \* Codes[l]: the codes of level l

\* Finitely many levels, with finitely many codes each.
ASSUME CodesAssumption ==
    /\ Len(Codes) \in Nat /\ DOMAIN Codes = 1 .. Len(Codes)
    /\ \A l \in DOMAIN Codes : IsFiniteSet(Codes[l])

VARIABLES
    fa,        \* the rows of the FA file
    spelling   \* how each file writes the codes below the first level

mergeVars == <<fa, spelling>>

\* A row is the sequence of codes from the root; the RKKS file has them all.
Levels == DOMAIN Codes
RowPaths == {p \in UNION {[1 .. n -> UNION Range(Codes)] : n \in Levels} :
                \A l \in DOMAIN p : p[l] \in Codes[l]}
Under(p, S) == {q \in S : Len(q) > 1 /\ Front(q) = p}

MergeInit ==
    /\ fa \in {S \in SUBSET RowPaths : \A p \in S : Len(p) > 1 => Front(p) \in S}
    /\ spelling \in [fa : {"plain", "joined", "padded"}, rkks : {"plain", "joined"}]

\* Segments of a code, each a sequence of signs: c, p.c, p.0c.
Segments(file, p) ==
    LET c == Last(p)
        how == spelling[file]
    IN  IF how = "plain" \/ Len(p) = 1 THEN <<<<c>>>>
        ELSE <<<<Last(Front(p))>>, IF how = "padded" THEN <<"0", c>> ELSE <<c>>>>

\* normalizeCode drops the dots.
Code(file, p) == FlattenSeq(Segments(file, p))
LastSegment(file, p) == Last(Segments(file, p))
Spelled(file, p) == [l \in 1 .. Len(p) |-> Code(file, SubSeq(p, 1, l))]

NoMatch == <<>>

\* Variant: of several rows with one key the deepest is taken.
DeepestFound(tries) ==
    LET some == {i \in DOMAIN tries : tries[i] # {}}
    IN  IF some = {} THEN NoMatch
        ELSE CHOOSE p \in tries[Min(some)] : \A q \in tries[Min(some)] : Len(q) <= Len(p)

\* The first attempt that finds exactly one row.
FirstUnique(tries) ==
    LET one == {i \in DOMAIN tries : Cardinality(tries[i]) = 1}
    IN  IF one = {} THEN NoMatch ELSE CHOOSE p \in tries[Min(one)] : TRUE

\* findInCandidates, among the rows below the match of the parent.
AmongCandidates(p, candidates) ==
    LET code == Code("rkks", p)
        segment == LastSegment("rkks", p)
    IN  << {q \in candidates : Code("fa", q) = code},
           {q \in candidates : segment \in {Code("fa", q), LastSegment("fa", q)}},
           {q \in candidates : \E end \in {code, segment} : IsSuffix(end, Code("fa", q))} >>

\* findFaMatch without a parent to go by: byPathSuffix, in which a key of one
\* code is byExactCode, and byLastSegment.
ByPath(key) == {q \in fa : IsSuffix(key, Spelled("fa", q))}

Anywhere(p) ==
    LET path == Spelled("rkks", p)
        code == Last(path)
        above == IF Len(p) = 1 THEN <<>>
                 ELSE LET parentCode == path[Len(p) - 1]
                      IN  << ByPath(<<parentCode, code>>),
                             ByPath(<<parentCode \o <<"0">> \o code>>),
                             ByPath(<<parentCode \o code>>) >>
    IN  <<ByPath(path)>> \o above
          \o <<ByPath(<<code>>), {q \in fa : LastSegment("fa", q) = code}>>

FindFaMatch ==
    LET match[p \in RowPaths] ==
            LET candidates == IF Len(p) = 1 THEN {} ELSE
                                IF match[Front(p)] = NoMatch THEN {}
                                ELSE Under(match[Front(p)], fa)
            IN  FirstUnique(AmongCandidates(p, candidates) \o Anywhere(p))
    IN  match

\* realisasi_sd_periode of the FA tree: each row without children spent 1.
FaSpent ==
    LET sd[p \in fa] ==
            IF Under(p, fa) = {} THEN 1 ELSE SumOf(sd, Under(p, fa))
    IN  sd

\* mergeFaRealisasi: what the children show, if anything, else what the match
\* spent; a row of an RKKS file has no realisasi of its own.
MergeFaRealisasi(match) ==
    LET sd[p \in RowPaths] ==
            LET below == SumOf(sd, Under(p, RowPaths))
            IN  IF below # 0 THEN below
                ELSE IF match[p] = NoMatch THEN 0 ELSE FaSpent[match[p]]
    IN  sd

-----------------------------------------------------------------------------
\* A row that is in both files finds itself or nothing, in whatever way either
\* file writes the codes and wherever else they occur; and where the FA file has
\* every row below it, it shows no amount twice (AnggaranPage.tsx:308-418).  A
\* row that is missing in the FA file may take another's amount.
MergedRight ==
    LET match == FindFaMatch
        shown == MergeFaRealisasi(match)
        Below(p) == {q \in RowPaths : IsPrefix(p, q)}
    IN  \A p \in fa : /\ match[p] \in {p, NoMatch}
                      /\ Below(p) \subseteq fa => shown[p] <= FaSpent[p]
=============================================================================
