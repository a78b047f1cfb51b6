--------------------------- MODULE MCAuthSessions ---------------------------
(* One user, two tabs of one browser, and the symmetry of what is alike.  *)
EXTENDS AuthSessions, TLC

Owner == [s \in Sid |-> CHOOSE u \in User : TRUE]
Shared == [t \in Tab |-> CHOOSE b \in Browser : TRUE]
Perms == Permutations(Tab) \cup Permutations(Instance) \cup Permutations(Sid)
=============================================================================
