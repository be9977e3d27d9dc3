----------------------------- MODULE MCAppRegistry -----------------------------
(***************************************************************************)
(* Small instances of AppRegistry for TLC: two applications, four table    *)
(* contents that differ in which application exists and in whether a       *)
(* stored secret is hexadecimal.                                           *)
(***************************************************************************)
EXTENDS AppRegistry

CONSTANTS a, b, t, s

MCApp == {a, b}
MCOrigins == [x \in MCApp |-> {}]

NoRow == None
Row(tok, ios) == [token |-> tok, ios |-> ios, android |-> None, web |-> s]

Both       == [x \in MCApp |-> IF x = a THEN Row(t, s) ELSE Row(None, s)]
OnlyA      == [x \in MCApp |-> IF x = a THEN Row(t, s) ELSE NoRow]
OnlyB      == [x \in MCApp |-> IF x = b THEN Row(None, "not hex") ELSE NoRow]
Empty      == [x \in MCApp |-> NoRow]

MCTables == {Both, OnlyA, OnlyB, Empty}
=============================================================================
