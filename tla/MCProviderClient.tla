-------------------------- MODULE MCProviderClient --------------------------
(* Two reads and a money-moving call on one client.                        *)
EXTENDS ProviderClient

CONSTANTS get1, get2, post

MCReads == {get1, get2}
=============================================================================
