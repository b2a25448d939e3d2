------------------------------ MODULE MCOsdHost ------------------------------
(***************************************************************************)
(* A small instance of OsdHost: the chip's memory word of two bytes,       *)
(* bursts of at most three words sent in packets of two.  The segment is   *)
(* loaded with a prolog, two bursts (three words, one word) and an epilog, *)
(* and followed by one zeroed byte, which the caller also writes and reads *)
(* alone.                                                                  *)
(***************************************************************************)
EXTENDS OsdHost

Modules == <<SCM, UART, MAM, STM, CTM>>
Segment == {[addr |-> 1, filesz |-> 10, memsz |-> 11]}
LastByte == {[addr |-> 11, size |-> 1]}
=============================================================================
