------------------------------ MODULE MCLongCalls ------------------------------
(* The calls that take their time: one archived chat, through syncs and        *)
(* forgets; two downloads at once; or one watch.                               *)
EXTENDS Archive, Media, Watch

CONSTANT Parts
VARIABLE part

Ann  == [id |-> "ann", kind |-> "user", name |-> "a"]
Room == [id |-> "room", kind |-> "group", name |-> None]
News == [id |-> "news", kind |-> "channel", name |-> "n"]

MCPeers == {Ann, Room, News}
MCCalls == {[chats |-> {}, timeout |-> 2, debounce |-> 1, limit |-> 2],
            [chats |-> {"ann", "room"}, timeout |-> 3, debounce |-> 2, limit |-> 3],
            [chats |-> {"ann"}, timeout |-> 2, debounce |-> 0, limit |-> 2],
            [chats |-> {"news"}, timeout |-> 2, debounce |-> 1, limit |-> 1]}

\* One person readable, one channel denied, the group readable for want of a rule.
MCWatchConfig ==
  [profile |-> "readonly", enumerate |-> TRUE, enumerateDms |-> TRUE,
   rules |-> [cap \in {"READ_CHAT", "READ_DM"} |->
                IF cap = "READ_CHAT" THEN [allow |-> {}, deny |-> {"news"}]
                ELSE [allow |-> {"ann"}, deny |-> {}]]]

LongInit ==
  /\ part \in Parts /\ Init /\ MediaInit /\ WatchInit
  /\ part # "watch" => call = CHOOSE c \in Calls : TRUE

LongNext ==
  \/ part = "archive" /\ Next /\ UNCHANGED <<part, mediaVars, watchVars>>
  \/ part = "media" /\ MediaNext /\ UNCHANGED <<part, vars, watchVars>>
  \/ part = "watch" /\ WatchNext /\ UNCHANGED <<part, vars, mediaVars>>

LongSpec ==
  /\ LongInit /\ [][LongNext]_<<part, vars, mediaVars, watchVars>>
  /\ part = "archive" => Fairness
=============================================================================
