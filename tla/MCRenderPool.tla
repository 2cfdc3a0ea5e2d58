---------------------------- MODULE MCRenderPool ----------------------------
EXTENDS RenderPool
CONSTANTS r1, r2, r3, i1, i2
=============================================================================
