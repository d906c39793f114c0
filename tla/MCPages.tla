------------------------------- MODULE MCPages -------------------------------
(***************************************************************************)
(* The pages and the handlers behind them.  A behaviour is about the part   *)
(* `desk` names, and the others keep their first state: the run checks the  *)
(* sum of the parts and not their product.  `left` bounds what users do and *)
(* what gets lost; answers are not bounded.                                *)
(***************************************************************************)
EXTENDS Dokumen, ArsipPanel, TreeView, MergeView, Snapshots, UsersPage, DipaPage, BudgetPage, TLC

CONSTANT Desk

VARIABLES desk, left

pagesVars == <<desk, left, dokVars, arsipVars, treeVars, mergeVars, snapVars, usersVars, dipaVars,
               budgetVars>>

AtDesk(d) == desk = d

CHome == [d \in {"a1", "a2", "b1"} |-> IF d = "b1" THEN "B" ELSE "A"]
CCodes == <<{"x", "y"}, {"x", "y"}, {"y"}>>
CMasa == {<<"past", 0>>, <<"past", 1>>}
CRow == {[pagu |-> 1, lock |-> l, real |-> 1] : l \in 0 .. 1}

\* A call of CreateAnggaranSnapshot that nobody has made.
First(c) == [at |-> "idle", periode |-> CHOOSE p \in Periode : TRUE, began |-> 0]

Bound == [d \in Desk |-> CASE d \in {"documents", "filter"} -> 3 [] d \in {"edit", "users"} -> 4 [] OTHER -> 5]

-----------------------------------------------------------------------------
(* First states: any state of the part the behaviour is about, one of each  *)
(* other part, with nothing under way there.                               *)

PagesInit ==
    /\ desk \in Desk /\ left = Bound[desk]
    /\ DokInit
    /\ IF AtDesk("documents") THEN clock \in {1, 2} ELSE clock = 0
    /\ LET names == SetToSeq(Sender) IN \A i \in 1 .. clock : row[names[i]].born = i
    /\ ArsipInit
    /\ AtDesk("panel") \/ \A n \in Panel : list[n] = SetToSeq(Range(list[n]))
    /\ rows = SetToSeq(RowId)
    /\ IF AtDesk("tree") THEN TreeInit
       ELSE parent = [r \in RowId |-> Top] /\ spent_by = [r \in RowId |-> 0]
    /\ IF AtDesk("merge") THEN MergeInit
       ELSE fa = {} /\ spelling = [fa |-> "plain", rkks |-> "plain"]
    /\ SnapInit
    /\ AtDesk("snapshot") \/ (snapping = [c \in Caller |-> First(c)] /\ copies = [p \in Periode |-> <<>>])
    /\ UsersInit
    /\ users[Self].name = "x"
    /\ AtDesk("users") \/ everUsed = {Self}
    /\ DipaInit
    /\ AtDesk("dipa") \/ filter = CHOOSE s \in Slot : TRUE
    /\ BudgetInit
    /\ CASE AtDesk("edit") -> taken = [k \in Masa |-> NoTree]
         [] AtDesk("filter") -> ~apart /\ Cardinality({k \in Masa : taken[k] # NoTree}) # 1
         [] OTHER -> ~apart /\ taken = [k \in Masa |-> NoTree]

-----------------------------------------------------------------------------
(* Steps.                                                                  *)

Within(d, command, reply) ==
    /\ AtDesk(d) /\ UNCHANGED desk
    /\ \/ command /\ left > 0 /\ left' = left - 1
       \/ reply /\ UNCHANGED left

\* A request of a query is read by the server before anything else happens:
\* one that is read later is fresher.
NoneSent(cacheOf) == \A e \in cacheOf : e.fetch # "sent"

BudgetSent == ~NoneSent({treeCache[k] : k \in TreeKey})

UsersDeskCommand ==
    \/ CloseForm \/ SubmitForm \/ DropDelete \/ ConfirmDelete
    \/ \E u \in UserId \cup {NobodyId} : OpenForm(u)
    \/ \E u \in UserId : AskDelete(u) \/ OtherDeletes(u)
    \/ TypeForm("y") \/ TypeForm(Blank)
    \/ \E u \in UserId : \E name, perms \in Word :
         name # perms /\ OtherSubmits(u, name, perms)
    \/ \E a \in Admin : UserSaveLost(a)

EditCommand ==
    \/ OpenEdit \/ CloseEdit \/ SubmitEdit \/ ConfirmDeleteNode \/ ChooseMonth("past")
    \/ \E r \in RowSet : (r # edit.row /\ FillEdit(r)) \/ OtherEdits(r)
    \/ \E p \in puts : PutFails(p)

FilterCommand ==
    \/ Perbarui \/ ImportFails \/ SnapshotFails
    \/ \E b \in Month : ChooseMonth(b)
    \/ \E k \in Masa \cup {NoChoice} : ChooseRevision(k)
    \/ budgetEdition = 1 /\ \E k \in Masa : ImportSent(k)
    \/ \E k \in Masa : OtherTakes(k)
    \/ \E k \in TreeKey : TreeLost(k)

PagesNext ==
    \/ /\ Within("documents", DokCommand, DokReply)
       /\ UNCHANGED <<arsipVars, treeVars, mergeVars, snapVars, usersVars, dipaVars, budgetVars>>
    \/ /\ Within("panel", ArsipCommand, ArsipReply)
       /\ UNCHANGED <<dokVars, treeVars, mergeVars, snapVars, usersVars, dipaVars, budgetVars>>
    \/ /\ AtDesk("snapshot") /\ SnapNext /\ UNCHANGED <<desk, left>>
       /\ UNCHANGED <<dokVars, arsipVars, treeVars, mergeVars, usersVars, dipaVars, budgetVars>>
    \/ /\ IF usersCache.fetch = "sent" THEN AtDesk("users") /\ UsersRead /\ UNCHANGED <<desk, left>>
          ELSE Within("users", UsersDeskCommand, UsersReply)
       /\ UNCHANGED <<dokVars, arsipVars, treeVars, mergeVars, snapVars, dipaVars, budgetVars>>
    \/ /\ Within("dipa", DipaCommand, DipaReply)
       /\ UNCHANGED <<dokVars, arsipVars, treeVars, mergeVars, snapVars, usersVars, budgetVars>>
    \/ /\ IF BudgetSent THEN \E k \in TreeKey : TreeRead(k) /\ UNCHANGED <<desk, left>>
          ELSE \/ Within("edit", EditCommand, BudgetReply)
               \/ Within("filter", FilterCommand, BudgetReply)
       /\ desk \in {"edit", "filter"}
       /\ UNCHANGED <<dokVars, arsipVars, treeVars, mergeVars, snapVars, usersVars, dipaVars>>

PagesSpec == PagesInit /\ [][PagesNext]_pagesVars
=============================================================================
