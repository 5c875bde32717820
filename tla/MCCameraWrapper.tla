---------------------------- MODULE MCCameraWrapper ----------------------------
(* CameraWrapper on a small instance: four events ever.                    *)
EXTENDS CameraWrapper
=============================================================================
