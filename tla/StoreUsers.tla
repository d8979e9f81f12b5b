------------------------------ MODULE StoreUsers ------------------------------
(***************************************************************************)
(* Everything that uses a data directory at once: the writer process with  *)
(* a client that remembers what it was shown, a read-only process and a    *)
(* verification.  Only the writer changes files.                           *)
(***************************************************************************)
EXTENDS ChunkStoreClient, SnapshotReader, Verifier

users == <<vars, seen, readerVars, verifierVars>>

UsersInit == ClientInit /\ ReaderInit /\ VerifierInit

WriterNext == ClientNext /\ FollowScan /\ UNCHANGED readerVars

(* The two readers change nothing the other sees: one runs at a time. *)
UsersNext ==
    \/ WriterNext
    \/ ReaderNext /\ vpc = "start" /\ UNCHANGED <<seen, verifierVars>>
    \/ VerifierNext /\ rpc = "start" /\ UNCHANGED <<seen, readerVars>>

UsersSpec == UsersInit /\ [][UsersNext]_users
================================================================================
