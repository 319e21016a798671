---------------------------- MODULE EventStream ----------------------------
(***************************************************************************)
(* What a durable event log promises of one run: a list of events that     *)
(* only grows, one event at a time, and never loses or alters one.         *)
(***************************************************************************)
EXTENDS Integers, Sequences

CONSTANT Payloads   \* what an event may say

VARIABLE stream     \* stream[s]: the event with sequence number s

StreamInit == stream = <<>>

Publish == \E e \in Payloads : stream' = Append(stream, e)

StreamSpec == StreamInit /\ [][Publish]_stream
=============================================================================
