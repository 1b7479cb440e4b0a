---------------------------- MODULE MCProxyCache ----------------------------
(* Instances of ProxyCache for TLC. *)
EXTENDS ProxyCache, TLC

\* Clients are interchangeable, and so are URLs.
Symmetry == Permutations(Clients) \cup Permutations(Urls)

=============================================================================
