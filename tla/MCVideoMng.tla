----------------------------- MODULE MCVideoMng -----------------------------
(* Two cameras, of which a configuration lists the first or both. *)
EXTENDS VideoMng

CONSTANTS c1, c2

MCCam == {c1, c2}
MCListings == {{c1}, {c1, c2}}
=============================================================================
