---------------------------- MODULE MCRegionStore ----------------------------
(***************************************************************************)
(* An instance of RegionStore for TLC, and the conversions between chunks  *)
(* and what images hold.  A behaviour is one of the store, or one of a     *)
(* caller of the conversions: they share no state.                         *)
(***************************************************************************)
EXTENDS RegionStore, Codecs

(* Three chunks of two regions, on both sides of the origin. *)
ThreeChunks == {<<-1, 0>>, <<0, 0>>, <<1, 0>>}

ImagesInit == Init /\ CodecInit

StoreNext ==
    /\ subject = NoSubject
    /\ Next
    /\ UNCHANGED subject

ConversionNext ==
    /\ CodecNext
    /\ UNCHANGED vars

ImagesSpec == ImagesInit /\ [][StoreNext \/ ConversionNext]_<<vars, subject>>
================================================================================
