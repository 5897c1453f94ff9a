------------------------------ MODULE MCOutbox -------------------------------
(* Outbox for TLC: messages to reply to.                                      *)
EXTENDS Outbox, TLC
CONSTANTS me, meCaps, x, y

\* From a stranger to both of us; with a Reply-To; from myself; addressed in capitals.
MCOriginals ==
  { [from |-> {x}, replyTo |-> {},  to |-> {me},     cc |-> {y, me}],
    [from |-> {x}, replyTo |-> {y}, to |-> {meCaps}, cc |-> {x}],
    [from |-> {me}, replyTo |-> {}, to |-> {x},      cc |-> {y}] }

MCTyped == {{}, {x}, {y}}
=============================================================================
