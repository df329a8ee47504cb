----------------------------- MODULE MCRtl8139 -----------------------------
(* Rtl8139.tla on a small ring.  It has the real one's remainder modulo 8, *)
(* on which BlockBytes depends, and its longest frame is Mtu + 18 bytes    *)
(* long as on the wire.                                                    *)
EXTENDS Rtl8139

SmallLengths == {10, 22}
=============================================================================
