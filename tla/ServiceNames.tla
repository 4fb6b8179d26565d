----------------------------- MODULE ServiceNames -----------------------------
(* What the services around the runtime are asked about, and by how many        *)
(* requests at once.                                                           *)
CONSTANTS Requests, AssetIds, GlobalProject, None
=============================================================================
