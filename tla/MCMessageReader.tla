-------------------------- MODULE MCMessageReader --------------------------
(* Small instances of the message-queue readers.                           *)
EXTENDS MessageReader, TLC

CONSTANTS w1, w2

FromBackend == [self |-> FALSE]
SelfProduced == [self |-> TRUE]

(* One record more than the workers and the channel can hold.              *)
SixRecords ==
    <<FromBackend, FromBackend, SelfProduced, FromBackend, FromBackend,
      FromBackend>>

TwoWorkers == {w1, w2}
=============================================================================
