------------------------------- MODULE MCStartup -------------------------------
(***************************************************************************)
(* Small instances of Startup: two ids, two secrets, two policies.         *)
(***************************************************************************)
EXTENDS Startup

Token(text) == [text |-> text, padded |-> FALSE]
Padded(text) == [text |-> text, padded |-> TRUE]

\* x and x with a blank are different tokens to the loader.
SomeTokens == {Token("x"), Padded("x"), Token("y")}
Entries == [id : {"diagnostics", "optimizer"}, token : SomeTokens, policy : {"p", "q"}]
BadEntries ==
  {[id |-> "", token |-> Token("x"), policy |-> "p"],
   [id |-> "optimizer", token |-> Padded(""), policy |-> "p"],
   [id |-> "optimizer", token |-> Token("x"), policy |-> "broken"]}

\* One or two entries, valid each for itself, or with an entry that is not.
SomeFiles == {<<>>} \cup {<<e>> : e \in Entries \cup BadEntries}
             \cup {<<e, f>> : e \in Entries, f \in Entries}

SomeSettings ==
  [mode : {"multi"}, operator : {Unset, Token("x"), Padded("x")}, agent : {Unset},
   policy : {"p"}, agentPort : {1}, operatorPort : {2, 3}]
  \cup
  [mode : {"single"}, operator : {Unset, Token("x"), Padded(""), Padded("x")},
   agent : {Unset, Token("x"), Padded(""), Token("y")}, policy : {"p", "broken"},
   agentPort : {1}, operatorPort : {1, 3, 4}]
=============================================================================
