-------------------------- MODULE MCProvisioning --------------------------
(***************************************************************************)
(* Provisioning for TLC: request sets and initial files.                   *)
(***************************************************************************)
EXTENDS Provisioning

CONSTANTS a, b, ka, kb, rule

GrantOf(c, i, t)  == [cmd |-> c, action |-> "grant", id |-> i, text |-> t]
RevokeOf(c, i)    == [cmd |-> c, action |-> "revoke", id |-> i, text |-> None]

\* Two requests for keys of their own.
KeyRequests ==
  {GrantOf("authorizedKeys", a, ka), GrantOf("authorizedKeys", b, kb),
   RevokeOf("authorizedKeys", a), RevokeOf("authorizedKeys", b)}

\* The same for the one sudo rule of the user.
SudoRequests ==
  {GrantOf("sudo", a, rule), GrantOf("sudo", b, rule), RevokeOf("sudo", a), RevokeOf("sudo", b)}

\* A CA key beside the key of the same request, and grants without a key.
MixedRequests ==
  KeyRequests \cup SudoRequests \cup
  {GrantOf("caKeys", a, kb), GrantOf("caKeys", b, None), GrantOf("authorizedKeys", a, None)}

KeyAndSudoRequests == KeyRequests \cup SudoRequests

\* authorized_keys as an administrator left it: with and without a final newline.
TerminatedFiles   == {[lines |-> <<Other("foreign")>>, ended |-> TRUE],
                      [lines |-> <<>>, ended |-> TRUE]}
UnterminatedFiles == {[lines |-> <<Other("foreign")>>, ended |-> FALSE]}
\* The same with a blank line, which only matters below a comment.
SpacedFiles       == {[lines |-> <<Other("blank"), Other("foreign")>>, ended |-> TRUE]}
AnyFiles          == TerminatedFiles \cup UnterminatedFiles

Nothing  == {}
Plain    == {<<a, a>>, <<b, b>>}  \* ids of letters, digits and hyphens
BFinds   == {<<b, b>>}            \* ... and one that sed does not find
PrefixAB == {<<a, b>>}
PartKAKB == {<<ka, kb>>}
=============================================================================
