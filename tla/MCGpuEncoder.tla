---------------------------- MODULE MCGpuEncoder ----------------------------
EXTENDS GpuEncoder
=============================================================================
