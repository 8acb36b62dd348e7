----------------------------- MODULE MCSqlText -----------------------------
(* Small instance of SqlText: every text of up to four pieces, put before  *)
(* and after the table of four headers, and every match row of the three   *)
(* numeric columns and a name with quotes, commas, brackets and escapes.   *)
EXTENDS SqlText

MCPieces ==
    {<<"whaletracker">>, <<" ">>, <<"nl">>, <<"quote">>, <<"backquote">>,
     <<"backslash">>, <<"/", "*">>, <<"*", "/">>, <<"/">>, <<"-", "-">>, <<"#">>,
     <<";">>, <<"!">>, <<"nul">>}

MCStatements ==
    {[lead |-> <<"update", " ", "db", ".">>, table |-> "whaletracker_online"],
     [lead |-> <<"insert", " ", "into">>, table |-> "whaletracker_logs"],
     [lead |-> <<"create", " ", "index", " ", "x", " ", "on">>,
      table |-> "whaletracker_servers"],
     [lead |-> <<"drop", " ", "table", " ", "if", " ", "exists">>,
      table |-> "whaletracker_mapstats"]}

MCIntOf ==
    [t \in {<<"0">>, <<"60">>, <<"120">>, <<"2400">>, <<"4738">>, <<"-", "5">>} |->
       CASE t = <<"0">> -> 0
         [] t = <<"60">> -> 60
         [] t = <<"120">> -> 120
         [] t = <<"2400">> -> 2400
         [] t = <<"4738">> -> 4738
         [] OTHER -> -5]

MCValues ==
    [c \in {"damage", "damage_taken", "playtime", "personaname"} |->
       CASE c = "damage" -> {<<"0">>, <<"2400">>, <<"4738">>, <<"-", "5">>}
         [] c = "damage_taken" -> {<<"null">>, <<"quote", "4738", "quote">>}
         [] c = "playtime" -> {<<"0">>, <<"60">>, <<"quote", "120", "quote">>, <<"now", "(", ")">>}
         [] OTHER -> {<<"quote", "quote">>,
                      <<"quote", "a", ",", ")", "quote">>,
                      <<"quote", "a", "backslash", "quote", ",", "quote">>,
                      <<"quote", "a", "quote", "quote", ",", "(", "quote">>,
                      <<"f", "(", "a", ",", "a", ")">>}]
=============================================================================
