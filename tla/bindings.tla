------------------------------ MODULE bindings ------------------------------
(* The native bindings and the virtual machine.  They share no state, so a
   behaviour follows one of them: the one that has the focus. *)
EXTENDS lminiz_streams, labsound, LuaVirtualMachine, stbi, crypto, iconv, rapidjson

VARIABLE focus

Components == {"zip", "stream", "audio", "vm", "image", "crypto", "iconv", "json"}

vars == <<focus, zipVars, streamVars, audioVars, vmVars, imageVars, cryptoVars, iconvVars,
          jsonVars>>

Init ==
    /\ focus \in Components
    /\ ZipInit /\ StreamInit /\ AudioInit /\ VmInit /\ StbiInit /\ CryptoInit /\ IconvInit
    /\ JsonInit

Next ==
    \/ /\ focus = "zip" /\ ZipNext
       /\ UNCHANGED <<focus, streamVars, audioVars, vmVars, imageVars,
                      cryptoVars, iconvVars, jsonVars>>
    \/ /\ focus = "stream" /\ StreamNext
       /\ UNCHANGED <<focus, zipVars, audioVars, vmVars, imageVars,
                      cryptoVars, iconvVars, jsonVars>>
    \/ /\ focus = "audio" /\ AudioNext
       /\ UNCHANGED <<focus, zipVars, streamVars, vmVars, imageVars,
                      cryptoVars, iconvVars, jsonVars>>
    \/ /\ focus = "vm" /\ VmNext
       /\ UNCHANGED <<focus, zipVars, streamVars, audioVars, imageVars,
                      cryptoVars, iconvVars, jsonVars>>
    \/ /\ focus = "image" /\ StbiNext
       /\ UNCHANGED <<focus, zipVars, streamVars, audioVars, vmVars,
                      cryptoVars, iconvVars, jsonVars>>
    \/ /\ focus = "crypto" /\ CryptoNext
       /\ UNCHANGED <<focus, zipVars, streamVars, audioVars, vmVars,
                      imageVars, iconvVars, jsonVars>>
    \/ /\ focus = "iconv" /\ IconvNext
       /\ UNCHANGED <<focus, zipVars, streamVars, audioVars, vmVars,
                      imageVars, cryptoVars, jsonVars>>
    \/ /\ focus = "json" /\ JsonNext
       /\ UNCHANGED <<focus, zipVars, streamVars, audioVars, vmVars,
                      imageVars, cryptoVars, iconvVars>>

Spec == Init /\ [][Next]_vars

(* The type invariants of all of them. *)
BindingsTypeOK ==
    /\ ZipTypeOK /\ StreamTypeOK /\ AudioTypeOK /\ VmTypeOK
    /\ StbiTypeOK /\ CryptoTypeOK /\ IconvTypeOK /\ JsonTypeOK
=============================================================================
