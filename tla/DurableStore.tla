---------------------------- MODULE DurableStore ----------------------------
(***************************************************************************)
(* What the snapshot file promises, whatever happens to the process: it    *)
(* always holds one whole state that the stores were in, never a mixture   *)
(* of two and never a torn write; and a new process begins from it, or     *)
(* empty when it cannot be read.  When a save happens is left open.        *)
(***************************************************************************)
CONSTANTS
  States,  \* contents the stores can have
  Empty    \* one of them: that of fresh stores; also what an absent file stands for

VARIABLES
  up,   \* is there a process
  mem,  \* contents of its stores
  file  \* contents of the snapshot file

Change == up /\ mem' \in States /\ UNCHANGED <<up, file>>

Save == up /\ file' = mem /\ UNCHANGED <<up, mem>>

Stop == up /\ up' = FALSE /\ mem' = Empty /\ UNCHANGED file

Start == ~up /\ up' = TRUE /\ mem' \in {file, Empty} /\ UNCHANGED file

Init == up = FALSE /\ mem = Empty /\ file = Empty

Next == Change \/ Save \/ Stop \/ Start

Spec == Init /\ [][Next]_<<up, mem, file>>
=============================================================================
