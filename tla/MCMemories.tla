----------------------------- MODULE MCMemories -----------------------------
(* A chat turn with something to remember, one with a blank message, one   *)
(* pass of dreaming after the other, a memory kept by hand and one command *)
(* in a session: "tea" and "t e a" count as the same memory, but the       *)
(* second has no word a search could look for; "key" is refused.           *)
EXTENDS Memories, TLC
MCSlots == <<ProviderSlot("p", {<<"m">>, <<"n">>}, <<"m">>, {}, {}, <<>>),
             ProviderSlot("q", {<<"n">>}, <<"n">>, {}, {}, <<>>)>>
MCSwitches == {<<"q", "n">>}
MCUpdates  == {"effort" :> "high"}
MCContents == {"tea", "t e a", "key"}
MCKey   == "tea" :> "tea" @@ "t e a" :> "tea" @@ "key" :> "key"
MCWords == "tea" :> {"tea"} @@ "t e a" :> {} @@ "key" :> {"key"}
MCRules == "t1" :> <<"tea", "key">> @@ "t2" :> <<>>
MCDreamt == {<<"t e a">>, <<"tea">>}
MCSaid  == "h1" :> "t e a"
CONSTANTS c1, d1
MCPlace == "t1" :> "w" @@ "t2" :> "none" @@ d1 :> "w"
MCNoSpec == NoName
============================================================================
