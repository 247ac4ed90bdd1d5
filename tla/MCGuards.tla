------------------------------ MODULE MCGuards ------------------------------
(* An instance of Guards for TLC: a registry, the guards installed on it, and the rows an *)
(* operator may write.                                                                    *)
EXTENDS Guards, TLC

Perms == [clerk |-> {"view"}, owner |-> {"view", "pay"}]

Row(r, o, s) == [role |-> r, overrides |-> o, suspended |-> s]

\* A row that is suspended, and a role with the same permission granted and denied
Rows ==
    {Row("owner", {}, TRUE),
     Row("clerk", {[action |-> "grant", permission |-> "pay"],
                   [action |-> "deny", permission |-> "pay"]}, FALSE)}

\* A stranger, or a principal with a role of its own, at work or suspended
First == {None, Row("owner", {}, FALSE), Row("owner", {}, TRUE)}

Guard(k, w, r) == [kind |-> k, want |-> w, resolver |-> r]

Installed ==
    {Guard("permission", "pay", TRUE), Guard("role", "clerk", TRUE),
     Guard("session", "any", FALSE), Guard("stepUp", "any", FALSE)}

GuardSymmetry == Permutations(Session) \cup Permutations(Op)
=============================================================================
