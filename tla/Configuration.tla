---------------------------- MODULE Configuration ----------------------------
(***************************************************************************)
(* The command line of every harness: the constructor of Configuration     *)
(* (libs/aleakator/configuration.cpp), which prints the help, refuses the  *)
(* combinations the verification does not define, or fills the             *)
(* configuration.  Transitions stands for --twg or --twog, temporal and    *)
(* spatial for --ho-temporal and --ho-spatial.                             *)
(***************************************************************************)
EXTENDS Naturals

CONSTANTS
  MaxOrder,       \* bound: --order
  Asserts         \* FALSE in a Release build, which disables the assertions

ASSUME ConfigurationAssumption == MaxOrder \in Nat /\ Asserts \in BOOLEAN

CircuitTypes == {"CPU", "ACCELERATOR", "GADGET"}
Properties == {"TPS", "NI", "SNI"}

\* What the user asks for
Options == [help : BOOLEAN, transitions : BOOLEAN, spatial : BOOLEAN, temporal : BOOLEAN,
            order : 0 .. MaxOrder, property : Properties \union {"other"}]

\* Refused by std::invalid_argument.  REMOVE_FALSE_NEGATIVE_ has no option and
\* is still false here, so its check never refuses.
Refused(type, o) ==
  \/ o.spatial /\ o.temporal
  \/ o.order > 1 /\ o.transitions
  \/ o.property \notin Properties
  \/ type # "GADGET" /\ o.property \in {"SNI", "NI"}
  \/ o.property = "SNI" /\ (o.transitions \/ (o.order > 1 /\ o.temporal))

\* How the constructor ends
Outcome(type, o) ==
  IF o.help THEN "help"
  ELSE IF Refused(type, o) THEN "refused"
  ELSE IF Asserts /\ o.order < 1 THEN "aborted"
  ELSE "running"
=============================================================================
