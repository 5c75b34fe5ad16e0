--------------------------- MODULE MCDeliveryCycle ---------------------------
\* DeliveryCycle with the bounds of MCDeliveryCycle.cfg.
EXTENDS DeliveryCycle

\* Classic protection names the checks alone; a ruleset may bind one to an app.
MCProtections == {[build |-> "any"], [build |-> "actions", test |-> "any"]}
=============================================================================
