-------------------------- MODULE MCDomainatorWindows --------------------------
(* Instances of DomainatorWindows for TLC. *)
EXTENDS DomainatorWindows, TLC

CONSTANTS a, b, dom

(* Two sources ask for one domain. *)
OneDomain == a :> dom @@ b :> dom
===============================================================================
