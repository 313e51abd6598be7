---------------------------- MODULE MCLlMaskClean ----------------------------
(* Three ranks make one clean: over NVLink, over RDMA, and with one rank     *)
(* remote from the other two.  Two ranks over NVLink suffice for the finding.*)
EXTENDS LlMaskClean

Three == {1, 2, 3}
Mixed == {<<1, 3>>, <<3, 1>>, <<2, 3>>, <<3, 2>>}
MCLinks == {{}, Three \X Three, Mixed}
Two == {1, 2}
NearLinks == {{}}
=============================================================================
