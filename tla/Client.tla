------------------------------- MODULE Client --------------------------------
(***************************************************************************)
(* Parts of the client that share no state of the model: its start, the    *)
(* assets, the batches of script updates, the bridge, which carries out    *)
(* what the scripts asked for, the player's input and the cameras.  part   *)
(* names the one whose steps a behaviour shows.                            *)
(***************************************************************************)
EXTENDS StartUp, Assets, AtomicUpdate, Bridge, Input, Camera

VARIABLE part

clientVars == <<part, startUpVars, assetFileVars, batchVars, bridgeVars, inputVars, cameraVars>>

\* A part that is not shown starts in one fixed way.
Init ==
  /\ part \in {"start", "assets", "batches", "bridge", "input", "camera"}
  /\ StartUpInit /\ AssetsInit /\ BatchInit /\ BridgeInit /\ InputInit /\ CameraInit
  /\ part = "assets" \/ asset_file = EncryptedFile(CHOOSE k \in Keys : TRUE, Min(AssetSizes))
  /\ part = "input"  \/ counted_first
  /\ part = "camera" \/ marker[MAIN_CAMERA] = Min(REQUESTED)

StartUpStep == /\ part = "start" /\ StartUpNext
               /\ UNCHANGED <<part, assetFileVars, batchVars, bridgeVars, inputVars, cameraVars>>
AssetsStep  == /\ part = "assets" /\ AssetsNext
               /\ UNCHANGED <<part, startUpVars, batchVars, bridgeVars, inputVars, cameraVars>>
BatchStep   == /\ part = "batches" /\ BatchNext
               /\ UNCHANGED <<part, startUpVars, assetFileVars, bridgeVars, inputVars, cameraVars>>
BridgeStep  == /\ part = "bridge" /\ BridgeNext
               /\ UNCHANGED <<part, startUpVars, assetFileVars, batchVars, inputVars, cameraVars>>
InputStep   == /\ part = "input" /\ InputNext
               /\ UNCHANGED <<part, startUpVars, assetFileVars, batchVars, bridgeVars, cameraVars>>
CameraStep  == /\ part = "camera" /\ CameraNext
               /\ UNCHANGED <<part, startUpVars, assetFileVars, batchVars, bridgeVars, inputVars>>

Next == StartUpStep \/ AssetsStep \/ BatchStep \/ BridgeStep \/ InputStep \/ CameraStep

Spec == Init /\ [][Next]_clientVars
=============================================================================
