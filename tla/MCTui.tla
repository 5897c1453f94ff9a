-------------------------------- MODULE MCTui --------------------------------
(* Tui on one or two accounts: it starts without any, or with one of either kind. *)
EXTENDS Tui, TLC

CONSTANTS first, second, client, other

MCConfig(c, proto, port) ==
  [Defaults EXCEPT !.email = "other", !.proto = proto, !.host = "own", !.port = port,
                   !.smtpHost = "own", !.client = c, !.keep = FALSE]

MCAccounts ==
  {<<>>, << [id |-> first, config |-> MCConfig(None, "pop3", "995"), redeemed |-> FALSE] >>,
   << [id |-> first, config |-> MCConfig(client, "imap", "993"), redeemed |-> TRUE] >>}

MCSessions ==
  {[does |-> {"accounts", "fields"}, windows |-> 2],
   [does |-> {"draft", "ai", "accounts", "menu"}, windows |-> 2],
   [does |-> {"draft", "accounts"}, windows |-> 3],
   [does |-> {"draft", "ai", "settings", "views", "menu"}, windows |-> 3]}

Symmetry == Permutations(Files)
=============================================================================
