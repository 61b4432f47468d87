------------------------------- MODULE MemSpec -------------------------------
(***************************************************************************)
(* What user memory promises. Each address space maps its pages to values. *)
(* A page holds what was last written to it, whatever the kernel does with *)
(* frames, page tables and the swap area; a fork copies, and from then on  *)
(* nobody sees what the other writes.                                      *)
(*                                                                         *)
(* A page that holds something changes only at the request of its owner:   *)
(* asked says what was requested in the step that was just taken. With no  *)
(* request the kernel may bring in pages, but neither change nor take one. *)
(***************************************************************************)
EXTENDS Naturals

CONSTANTS
  Space,      \* address spaces
  Page,       \* pages of an address space
  Value,      \* what a page may hold
  Absent,     \* a page that holds nothing yet
  Image,      \* what programs are loaded from: values of some pages
  Nothing     \* no request

VARIABLES
  memory,     \* what every page of every space holds
  asked       \* <<s, pg, v>>, a write; <<s>>, give up the space; or Nothing

Contents == [Page -> Value \cup {Absent}]
NoMemory == [pg \in Page |-> Absent]

Init ==
  /\ memory = [s \in Space |-> NoMemory]
  /\ asked = Nothing

\* Nobody but s sees the change.
OnlyOf(s) == \A t \in Space \ {s} : memory'[t] = memory[t]

-----------------------------------------------------------------------------
(* What the owner of s asks for.                                           *)

Write(s, pg, v) ==
  /\ asked' = <<s, pg, v>>
  /\ memory[s][pg] # Absent
  /\ memory'[s] = [memory[s] EXCEPT ![pg] = v] /\ OnlyOf(s)

\* An exit or an execve: the space holds nothing any more.
Drop(s) ==
  /\ asked' = <<s>>
  /\ memory'[s] = NoMemory /\ OnlyOf(s)
-----------------------------------------------------------------------------
(* What happens without a request.                                         *)

\* A page is touched for the first time and has some value from then on.
Touch(s) ==
  \E pg \in Page, v \in Value :
    /\ memory[s][pg] = Absent
    /\ memory'[s] = [memory[s] EXCEPT ![pg] = v]

\* A space that was empty becomes a copy of t,
Fork(s, t) == memory[s] = NoMemory /\ memory'[s] = memory[t]

\* ... or holds a program, and pages with any value (its stack).
Load(s) ==
  /\ memory[s] = NoMemory /\ memory'[s] \in Contents
  /\ \E img \in Image : \A pg \in DOMAIN img : memory'[s][pg] = img[pg]

Bring(s) ==
  /\ asked' = Nothing
  /\ Touch(s) \/ Load(s) \/ \E t \in Space : Fork(s, t)
  /\ OnlyOf(s)

Hide == asked' = Nothing /\ memory' = memory
-----------------------------------------------------------------------------

Next ==
  \/ Hide
  \/ \E s \in Space :
       \/ \E pg \in Page, v \in Value : Write(s, pg, v)
       \/ Drop(s)
       \/ Bring(s)

Spec == Init /\ [][Next]_<<memory, asked>>
=============================================================================
