----------------------------- MODULE MCHandlers -----------------------------
(***************************************************************************)
(* TLC instance of Handlers.                                               *)
(***************************************************************************)
EXTENDS Handlers

Entry(k, p, o) == [kind |-> k, proto |-> p, ops |-> o]

\* The two handlers of the repository, one of a third protocol that brings no
\* operations, libraries that are no handlers, and a text file.
Directory ==
  [f \in File |->
     CASE f = "mcuio"   -> Entry("handler", 1, TRUE)
       [] f = "console" -> Entry("handler", 2, TRUE)
       [] f = "rpmsg"   -> Entry("handler", 3, FALSE)
       [] f = "radio"   -> Entry("foreign", 1, TRUE)
       [] f = "libutil" -> Entry("symbolless", 1, TRUE)
       [] OTHER         -> Entry("other", 1, TRUE)]
=============================================================================
