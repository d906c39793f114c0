----------------------------- MODULE BlobStore -----------------------------
(***************************************************************************)
(* What the storage service promises to the callers of CASStorage.Save:     *)
(* content that was answered with its hash can be read back whole from then *)
(* on.  Nothing is ever removed from it.                                   *)
(***************************************************************************)
CONSTANTS
    Blob,      \* contents, each known by its SHA-256
    Sender     \* calls of Save

VARIABLES
    kept,      \* the blobs that can be read whole
    told,      \* <<s, b>>: s was answered with the hash of b
    over       \* the calls that have ended

storeVars == <<kept, told, over>>

StoreInit == kept = {} /\ told = {} /\ over = {}

Keep(b) == kept' = kept \cup {b} /\ UNCHANGED <<told, over>>

\* A hash is given out only for a blob that is there.
Tell(s, b) ==
    /\ s \notin over
    /\ b \in kept
    /\ told' = told \cup {<<s, b>>}
    /\ over' = over \cup {s}
    /\ UNCHANGED kept

\* Calls end without a hash; a crash of the service ends many.
Refuse(S) ==
    /\ S \cap over = {}
    /\ over' = over \cup S
    /\ UNCHANGED <<kept, told>>

StoreNext ==
    \/ \E b \in Blob : Keep(b)
    \/ \E s \in Sender : \E b \in Blob : Tell(s, b)
    \/ \E S \in SUBSET Sender : Refuse(S)

StoreSpec == StoreInit /\ [][StoreNext]_storeVars
=============================================================================
