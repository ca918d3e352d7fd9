------------------------------ MODULE MCInputs ------------------------------
(* What the vault makes of what it is given, for TLC: the address of a      *)
(* caller, the files of its embedding keys, the parameters of a key to be   *)
(* generated.  The three have nothing in common, so a behaviour is one of   *)
(* one of them, while the other two stand still at a fixed first state.     *)
EXTENDS MCAddressCheck, MCKekFiles, Keygen

MCLengths == {0, 128, 192, 248, 256, 260, 384, 512, 2047, 2048, 2049, 4096, 4104,
              16384, 16385}

-----------------------------------------------------------------------------
VARIABLE subject

NoCall == Sent(Call(V4(1, 2), <<>>, 0, 0, {}))
NoFiles == Given(<<File(Mode600, EcKek(idA))>>)
NoParams == Asked([alg |-> "ECDH-ES", kty |-> None, crv |-> None, keyLength |-> None])

InputsInit == \/ subject = "address" /\ AddressInit /\ NoFiles /\ NoParams
              \/ subject = "files" /\ FilesInit /\ NoCall /\ NoParams
              \/ subject = "keygen" /\ KeygenInit /\ NoCall /\ NoFiles

InputsNext == \/ /\ subject = "address" /\ AddressNext
                 /\ UNCHANGED <<filesVars, keygenVars, subject>>
              \/ /\ subject = "files" /\ FilesNext
                 /\ UNCHANGED <<addressVars, keygenVars, subject>>
              \/ /\ subject = "keygen" /\ KeygenNext
                 /\ UNCHANGED <<addressVars, filesVars, subject>>

InputsSpec == InputsInit /\ [][InputsNext]_<<addressVars, filesVars, keygenVars, subject>>
=============================================================================
