---------------------------- MODULE MCNetClient -----------------------------
(* Model-checking instance of NetClient: two worlds, two inputs. *)
EXTENDS NetClient

\* The input decides the next world together with the current one.
MCStep(w, i) == (w + i + 1) % 2
MCWorld == 0 .. 1
MCInputs == 0 .. 1
=============================================================================
