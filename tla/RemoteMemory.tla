---------------------------- MODULE RemoteMemory ----------------------------
(***************************************************************************)
(* What the packet, read/write and UDP layers promise together: operations *)
(* are carried out one at a time, each read is answered with its number    *)
(* and the memory as it is then, the answers leave in that order, none     *)
(* lost or repeated.  Up to the first fault on the way to the server the   *)
(* operations are the client's requests, in the order sent, none left out; *)
(* after it they may be any, for a frame that arrives is not checked.      *)
(***************************************************************************)
EXTENDS Integers, Sequences

CONSTANTS Cell,       \* the words of the memory
          Initial,    \* what they are at first
          Request     \* what a client may ask for

VARIABLES sent,       \* the requests with their numbers, oldest first
          done,       \* the operations carried out, with theirs
          cells,      \* the memory
          answers,    \* to which requests, and the words found
          answered,   \* how many of the answers have left
          faults      \* losses and stray bytes on the way

vars == <<sent, done, cells, answers, answered, faults>>

Init ==
  /\ sent = <<>> /\ done = <<>> /\ answers = <<>>
  /\ cells = Initial
  /\ answered = 0 /\ faults = 0

Ask(r) ==
  /\ sent' = Append(sent, [no |-> Len(sent) + 1, request |-> r])
  /\ UNCHANGED <<done, cells, answers, answered, faults>>

Fault == faults' = faults + 1 /\ UNCHANGED <<sent, done, cells, answers, answered>>

CarryOut(o) ==
  LET r     == o.request
      Words == [k \in 1..r.size |-> cells[r.address + k - 1]]
  IN  /\ done' = Append(done, o)
      /\ \/ /\ r.op = "read"
            /\ answers' = Append(answers, [to |-> o.no, words |-> Words])
            /\ UNCHANGED cells
         \/ /\ r.op = "write"
            /\ cells' = [c \in Cell |-> IF c - r.address \in 0..r.size - 1
                                        THEN r.values[c - r.address + 1] ELSE cells[c]]
            /\ UNCHANGED answers
         \/ /\ r.op = "none"
            /\ UNCHANGED <<cells, answers>>
      /\ UNCHANGED <<sent, answered, faults>>

Serve == Len(done) < Len(sent) /\ CarryOut(sent[Len(done) + 1])

\* What is carried out is whatever stands in done afterwards.
ServeAnything == faults > 0 /\ done' # <<>> /\ CarryOut(done'[Len(done')])

Answer ==
  /\ answered' = answered + 1
  /\ answered < Len(answers)
  /\ UNCHANGED <<sent, done, cells, answers, faults>>

Next ==
  \/ \E r \in Request : Ask(r)
  \/ Fault
  \/ Serve
  \/ ServeAnything
  \/ Answer

Spec == Init /\ [][Next]_vars
=============================================================================
