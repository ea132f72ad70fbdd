------------------------------- MODULE Uinput -------------------------------
(* What the Linux uinput devices share (UinputDevice): a call emits a script *)
(* of input events one write at a time and returns at the first write that   *)
(* fails, so the kernel has received a prefix of the script.  An event is    *)
(* <<code, value>>; each device says what an event does to what the kernel   *)
(* holds for it.                                                             *)
EXTENDS Integers, Sequences, SequencesExt

Key(code, down) == <<code, IF down THEN 1 ELSE 0>>
Syn == <<"SYN", 0>>

(* emit_event, for the first n events of a script *)
Sent(script, n) == SubSeq(script, 1, n)

(* How many events of the script are written: all of them, or a write fails. *)
Writable(script, mayFail) ==
  IF mayFail THEN 0 .. Len(script) ELSE {Len(script)}

(* The keys an event leaves down *)
KeysAfter(keys, event) ==
  IF event[2] = 1 THEN keys \cup {event[1]} ELSE keys \ {event[1]}
=============================================================================
