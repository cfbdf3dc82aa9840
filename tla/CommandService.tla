--------------------------- MODULE CommandService ---------------------------
(***************************************************************************)
(* What the USB task promises a host, without bytes and buffers: commands  *)
(* are judged one by one in the order they were sent; each is handed to    *)
(* the main loop or answered, never both and never twice; Busy is answered *)
(* only when Depth commands wait for the loop; and the answers reach the   *)
(* host in that order too.                                                 *)
(*                                                                         *)
(* A command that is cut off damages at most the one that follows it.      *)
(* Apart from that commands and answers are lost only in a mishap: the     *)
(* cable, a reset of the board, or the end of the host's program.          *)
(***************************************************************************)
EXTENDS Integers, SequencesExt

CONSTANTS
    Commands, Forwarded,
    Depth,             \* commands that may wait for the main loop
    MaxMishaps,
    Damaged,           \* stands in pending for a damaged command
    Busy, Answer(_)    \* the answers

VARIABLES
    pending,  \* commands sent and not judged
    cut,      \* the last one was cut off: what follows merges with it
    queue,    \* commands handed to the main loop
    answers,  \* answers the host has not read
    mishaps

Init == pending = <<>> /\ cut = FALSE /\ queue = <<>> /\ answers = <<>> /\ mishaps = 0

Send ==
    /\ UNCHANGED <<queue, answers, mishaps>>
    /\ pending' # <<>>
    /\ Front(pending') = pending
    /\ Last(pending') \in IF cut THEN {Damaged} ELSE Commands
    /\ cut' = FALSE

\* A damaged command may read as any other.
Readings(c) == IF c = Damaged THEN Commands \cup {Damaged} ELSE {c}

Judge ==
    /\ pending # <<>>
    /\ pending' = Tail(pending)
    /\ \E c \in Readings(Head(pending)) :
           \/ /\ c \in Forwarded /\ Len(queue) < Depth
              /\ queue' = Append(queue, c) /\ UNCHANGED answers
           \/ /\ c \in Forwarded /\ Len(queue) = Depth
              /\ answers' = Append(answers, Busy) /\ UNCHANGED queue
           \/ /\ c \notin Forwarded
              /\ answers' = Append(answers, Answer(c)) /\ UNCHANGED queue
    /\ UNCHANGED <<cut, mishaps>>

\* What was cut off outgrows the buffer and disappears.
Outgrown ==
    /\ \/ pending # <<>> /\ Head(pending) = Damaged
          /\ pending' \in {Tail(pending)} \cup {<<c>> \o Tail(pending) : c \in Commands}
          /\ UNCHANGED cut
       \/ cut /\ ~cut' /\ UNCHANGED pending
    /\ UNCHANGED <<queue, answers, mishaps>>

Apply == queue # <<>> /\ queue' = <<>> /\ UNCHANGED <<pending, cut, answers, mishaps>>

\* A host that starts again may find answers to the last one gone.
Read ==
    /\ \E n \in DOMAIN answers : answers' = SubSeq(answers, n + 1, Len(answers))
    /\ UNCHANGED <<pending, cut, queue, mishaps>>

\* A part of s is left, in one piece.
Remains(s) == {SubSeq(s, i, j) : i \in 1 .. Len(s) + 1, j \in 0 .. Len(s)}

\* The command that is now the first may have lost its start, and so be
\* damaged; one that was damaged may have lost what spoiled it.
HeadReread(S) ==
    S \cup {<<Damaged>> \o Tail(s) : s \in S \ {<<>>}}
      \cup {<<c>> \o Tail(s) : c \in Commands, s \in {t \in S \ {<<>>} : Head(t) = Damaged}}

Mishap ==
    /\ mishaps < MaxMishaps
    /\ mishaps' = mishaps + 1
    /\ pending' \in HeadReread(Remains(pending))
    /\ cut' \in BOOLEAN
    /\ queue' \in {queue, <<>>}
    /\ answers' \in Remains(answers)

Next == Send \/ Judge \/ Outgrown \/ Apply \/ Read \/ Mishap

Spec == Init /\ [][Next]_<<pending, cut, queue, answers, mishaps>>
=============================================================================
