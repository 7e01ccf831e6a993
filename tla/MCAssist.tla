------------------------------- MODULE MCAssist -------------------------------
(***************************************************************************)
(* Two states of the same shape, m and n: two members on each axis, whose  *)
(* ids have hyphens, and a relation whose scale has two tokens.            *)
(***************************************************************************)
EXTENDS Assist

MCMembers == {"a", "a-b", "c", "b-c"}
MCOrder == <<"d", "e">>

Plain == [weight |-> None, token |-> None, source |-> None, status |-> "active",
          successor |-> None]
Dimension(ids) == [weightScale |-> None, members |-> [m \in ids |-> Plain]]
Level2(token, value) == [token |-> token, value |-> value, range |-> {}]

Document ==
  [dimensions |-> [d |-> Dimension({"a", "a-b"}), e |-> Dimension({"c", "b-c"})],
   scales |-> [s |-> <<Level2("lo", 1), Level2("hi", 2)>>, none |-> <<>>],
   relations |->
     [r |-> [from |-> "d", to |-> "e", type |-> "supports", scale |-> "s",
             policy |-> "both", status |-> "active", successor |-> None, cells |-> << >>],
      bare |-> [from |-> "d", to |-> "e", type |-> "supports", scale |-> "none",
                policy |-> "none", status |-> "active", successor |-> None,
                cells |-> << >>]],
   contractions |-> << >>]

MCStates == {"m", "n"}
\* The words of an id: from a to b-c reads like from a-b to c.
Words(id) == CASE id = "a-b" -> <<"a", "b">> [] id = "b-c" -> <<"b", "c">> [] OTHER -> <<id>>

MCJoined(r, from, to, token) == Words(r) \o Words(from) \o Words(to) \o Words(token)

MCDocuments == [m \in MCStates |-> Document]
MCRequests ==
  {<<"suggest", TRUE, "r", None>>,
   <<"uncertainty", FALSE, "r", <<<<"a", "c">>>>>>,
   <<"suggest", FALSE, "bare", <<<<"a", "c">>>>>>}
MCEdits ==
  {<<"r", <<"a", "c">>,
     [token |-> "hi", proposed |-> FALSE, provenance |-> None, sourced |-> FALSE,
      measured |-> None, evidence |-> 0, reply |-> None]>>}
MCRetirable == {"r"}
=============================================================================
