----------------------------- MODULE Addressing ------------------------------
(***************************************************************************)
(* Whom a mail goes to: build_reply and build_forward of imt-tui/quote.rs,  *)
(* the reply tool of imt-mcp/tools/compose.rs, and the way of an address    *)
(* through the text fields of the compose window.                           *)
(*                                                                          *)
(* Recipients are sets: order, and an address named twice, change nothing   *)
(* for whom the mail reaches.                                               *)
(***************************************************************************)
CONSTANTS
  Addr,        \* addresses
  Me,          \* the account's address as it is stored
  MeOtherwise, \* the same mailbox in other upper and lower case
  CommaNamed,  \* addresses whose display name has a comma: Doe, John <john@...>
  Junk         \* what is left of such a name: no valid address

ASSUME AddressAssumption ==
  /\ {Me, MeOtherwise} \subseteq Addr /\ CommaNamed \subseteq Addr
  /\ Junk \notin Addr

Headers == [from : SUBSET Addr, replyTo : SUBSET Addr, to : SUBSET Addr, cc : SUBSET Addr]

Author(o) == IF o.replyTo # {} THEN o.replyTo ELSE o.from

\* Slip: the account's own address is left among the recipients.
BuildReplySlip(o, all) ==
  Author(o) \cup (IF all THEN o.to \cup o.cc ELSE {})

\* The mail addresses are compared as they are written.
BuildReply(o, all) ==
  Author(o) \cup (IF all THEN (o.to \cup o.cc) \ {Me} ELSE {})

\* The sender in any case; of the recipients in To, not the account itself in
\* any spelling; those in Cc as they are.
McpReply(o, all) ==
  o.from \cup (IF all THEN (o.to \ {Me, MeOtherwise}) \cup o.cc ELSE {})

\* An address becomes text, and the text is split at its commas.
ParseAddrs(S) == S \cup (IF S \cap CommaNamed # {} THEN {Junk} ELSE {})

Deliverable(S) == S # {} /\ Junk \notin S
=============================================================================
