--------------------------- MODULE StreamContract ---------------------------
(***************************************************************************)
(* What the forwarding pipe promises whoever reads the file from it: the   *)
(* chunks the client sent, in order and once each, and an end only after   *)
(* the whole request validated and every chunk was read.  A pipe that      *)
(* broke delivers nothing more, even what it had already taken.            *)
(*                                                                         *)
(* Streaming is shown to implement this module.                            *)
(***************************************************************************)
EXTENDS Naturals, Sequences

VARIABLES
  sent,       \* how many chunks the client got rid of
  delivered,  \* the numbers of the chunks the reader received
  pipe        \* open, checked (the request validated), whole or broken

pipeVars == <<sent, delivered, pipe>>

PipeInit == sent = 0 /\ delivered = <<>> /\ pipe = "open"

Send == /\ pipe = "open"
        /\ sent' = sent + 1
        /\ UNCHANGED <<delivered, pipe>>

Deliver == /\ pipe \in {"open", "checked"}
           /\ Len(delivered) < sent
           /\ delivered' = Append(delivered, Len(delivered) + 1)
           /\ UNCHANGED <<sent, pipe>>

Check == /\ pipe = "open"
         /\ pipe' = "checked"
         /\ UNCHANGED <<sent, delivered>>

Close == /\ pipe = "checked"
         /\ Len(delivered) = sent
         /\ pipe' = "whole"
         /\ UNCHANGED <<sent, delivered>>

Break == /\ pipe \in {"open", "checked"}
         /\ pipe' = "broken"
         /\ UNCHANGED <<sent, delivered>>

PipeNext == Send \/ Deliver \/ Check \/ Close \/ Break

PipeSpec == PipeInit /\ [][PipeNext]_pipeVars
==============================================================================
