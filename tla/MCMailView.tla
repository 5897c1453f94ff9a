----------------------------- MODULE MCMailView -----------------------------
(* MailView for TLC: behaviours are followed until the engine refuses what   *)
(* the TUI has shown already, after which the view may differ for good.      *)
EXTENDS MailView

NotAmiss == ~amiss
=============================================================================
