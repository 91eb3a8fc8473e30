-------------------------- MODULE MCAppendOnlyFile --------------------------
(* AppendOnlyFile for TLC: the three fsync policies.  Only under "always"  *)
(* does no-appendfsync-on-rewrite add behaviours: under the others an      *)
(* fsync need not be due after a write.                                    *)
EXTENDS AppendOnlyFile

Settings == {<<"always", FALSE>>, <<"always", TRUE>>, <<"everysec", FALSE>>, <<"no", FALSE>>}
=============================================================================
