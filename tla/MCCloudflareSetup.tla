-------------------------- MODULE MCCloudflareSetup --------------------------
(* CloudflareSetup for TLC.                                                *)
EXTENDS CloudflareSetup
==============================================================================
