------------------------------ MODULE MCSpProtocol ------------------------------
EXTENDS SpProtocol

MCAddrs == Conns \cup UdpAddrs
Symmetry == Permutations(Client) \cup Permutations(UdpAddrs)

\* Where liveness or an action property rules out symmetry: identities other
\* than 0 and addresses are told apart by nothing but who has them first, so
\* one way to hand them out stands for all.
MCInit ==
  /\ Init
  /\ sp_id = CHOOSE f \in [Client -> Ids] : IsInjective(f)
  /\ sp_ds = CHOOSE f \in [Client -> UdpAddrs] : IsInjective(f)

MCFairSpec == MCInit /\ [][Next]_vars /\ Fairness
=============================================================================
