--------------------------- MODULE MCGallerySync ---------------------------
(* TLC instances of GallerySync; Limit, Posted and MaxPosted come from the *)
(* configurations.                                                         *)
EXTENDS GallerySync
=============================================================================
