------------------------------ MODULE MCKeyStore ------------------------------
(* Two secrets and two ids; the operator writes any table, one with an id  *)
(* used twice included, half a file, or a list that breaks off.            *)
EXTENDS KeyStore

================================================================================
