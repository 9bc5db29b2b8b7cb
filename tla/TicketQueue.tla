---------------------------- MODULE TicketQueue ----------------------------
(***************************************************************************)
(* What chenc::atomic_queue promises to its callers, without its ring.     *)
(*                                                                         *)
(* A push first reserves the next place in the queue (the compare-exchange *)
(* on tail_pos_) and only later fills it (the store to sequence_).  A pop  *)
(* takes the oldest place, if it has been filled.  A pop may answer "no    *)
(* item" while younger places are already filled: the oldest reservation   *)
(* blocks them, which the comment in pop() states on purpose.              *)
(***************************************************************************)
EXTENDS Integers, Sequences

CONSTANTS Threads,      \* the callers
          Items         \* the values that may be pushed, all distinct

\* Replies a pop has determined but not yet returned.
NoReply == -1           \* the thread has no pop under way that is decided
Nullopt == 0            \* std::nullopt

VARIABLES queue,        \* places in order: [item, filled]
          reply         \* Threads -> Items \cup {NoReply, Nullopt}

vars == <<queue, reply>>

Place(v, b) == [item |-> v, filled |-> b]

Init == /\ queue = << >>
        /\ reply = [t \in Threads |-> NoReply]

\* A push obtains the next place for item v.
Reserve(v) ==
  /\ \A i \in DOMAIN queue : queue[i].item # v
  /\ queue' = Append(queue, Place(v, FALSE))
  /\ UNCHANGED reply

\* A push fills the place it reserved.
Fill(i) ==
  /\ ~queue[i].filled
  /\ queue' = [queue EXCEPT ![i].filled = TRUE]
  /\ UNCHANGED reply

\* A pop takes the oldest place, which must be filled.
Take(t) ==
  /\ reply[t] = NoReply
  /\ queue # << >> /\ Head(queue).filled
  /\ queue' = Tail(queue)
  /\ reply' = [reply EXCEPT ![t] = Head(queue).item]

\* A pop answers std::nullopt: at this moment the oldest place is not filled.
FindEmpty(t) ==
  /\ reply[t] = NoReply
  /\ queue = << >> \/ ~Head(queue).filled
  /\ reply' = [reply EXCEPT ![t] = Nullopt]
  /\ UNCHANGED queue

\* The pop returns.
Return(t) ==
  /\ reply[t] # NoReply
  /\ reply' = [reply EXCEPT ![t] = NoReply]
  /\ UNCHANGED queue

\* The destructor drops what is still queued; every place is filled by then.
Discard ==
  /\ \A i \in DOMAIN queue : queue[i].filled
  /\ \A t \in Threads : reply[t] = NoReply
  /\ queue' = << >>
  /\ UNCHANGED reply

Next == \/ \E v \in Items : Reserve(v)
        \/ \E i \in DOMAIN queue : Fill(i)
        \/ \E t \in Threads : Take(t) \/ FindEmpty(t) \/ Return(t)
        \/ Discard

Spec == Init /\ [][Next]_vars
=============================================================================
