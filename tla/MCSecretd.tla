---- MODULE MCSecretd ----
EXTENDS Secretd, TLC
CONSTANTS t1, t2, b1, b2, p1, p2
Symmetry == Permutations(Thread) \cup Permutations(Token)
Hosts == {"api.openai.com", "api.github.com"}
\* a policy that terminates TLS and names a host of another provider, and one that does
\* neither; the empty scope that Relay.Mint sends only ever denies, which Decide may anyway
Policies == {[provider |-> "openai", hosts |-> Hosts, mitm |-> TRUE],
             [provider |-> "github", hosts |-> {"api.github.com"}, mitm |-> FALSE]}
\* what an idle thread's last call left in its locals is never read again
Locals(t) == IF pc[t] = "idle" THEN <<>> ELSE <<op[t], tok[t], row[t], todo[t], scope[t], doomed[t]>>
View == <<vault, present, policy, bearer, pc, [t \in Thread |-> Locals(t)], dead, started,
          proxyVars, daemonVars, raced>>
====
