--------------------------- MODULE TransferContract ---------------------------
(***************************************************************************)
(* What the transfer queue promises its clients, without threads, mutex or *)
(* bytes.  A batch is opened, its entries are uploaded until each is ready *)
(* or refused, an import run takes the ready entries one at a time and in  *)
(* order, and what the run imported or rejected stays so until the next    *)
(* batch is opened, which never happens during a run.                      *)
(***************************************************************************)
EXTENDS Naturals

CONSTANT Sizes        \* how many entries a batch may have

VARIABLES
  entries,            \* the state of each entry of the batch
  running,            \* an import run was accepted and has not ended
  halted              \* the batch was cancelled

vars == <<entries, running, halted>>

Init == entries = [i \in 1 .. 0 |-> "pending"] /\ running = FALSE /\ halted = FALSE

Open(n) ==
  /\ ~running
  /\ entries' = [i \in 1 .. n |-> "pending"]
  /\ halted' = FALSE /\ UNCHANGED running

\* An upload begins, succeeds or fails; only unfinished entries take one.
Upload(i, to) ==
  /\ ~running /\ entries[i] \in {"pending", "refused"}
  /\ entries' = [entries EXCEPT ![i] = to]
  /\ UNCHANGED <<running, halted>>

Accept ==
  /\ ~running /\ ~halted
  /\ \A i \in DOMAIN entries : entries[i] \notin {"pending", "importing"}
  /\ running' = TRUE /\ UNCHANGED <<entries, halted>>

Begin(i) ==
  /\ running /\ ~halted
  /\ \A j \in DOMAIN entries : entries[j] # "importing"
  /\ entries[i] = "ready" /\ \A j \in 1 .. i - 1 : entries[j] # "ready"
  /\ entries' = [entries EXCEPT ![i] = "importing"]
  /\ UNCHANGED <<running, halted>>

End(i, to) ==
  /\ running /\ entries[i] = "importing"
  /\ entries' = [entries EXCEPT ![i] = to]
  /\ UNCHANGED <<running, halted>>

Close ==
  /\ running
  /\ \A i \in DOMAIN entries : entries[i] # "importing" /\ (entries[i] = "ready" => halted)
  /\ running' = FALSE /\ UNCHANGED <<entries, halted>>

Halt == halted' = TRUE /\ UNCHANGED <<entries, running>>

Next ==
  \/ \E n \in Sizes : Open(n)
  \/ \E i \in DOMAIN entries :
       \/ \E to \in {"pending", "ready", "refused"} : Upload(i, to)
       \/ Begin(i)
       \/ \E to \in {"imported", "rejected"} : End(i, to)
  \/ Accept \/ Close \/ Halt

Spec == Init /\ [][Next]_vars
=============================================================================
