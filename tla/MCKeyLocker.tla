---------------------------- MODULE MCKeyLocker ----------------------------
(* Calls on two keys, one entry more than keys so that an idle key may get *)
(* back the entry it had, another key's, or a new one.                     *)
EXTENDS KeyLocker
=============================================================================
