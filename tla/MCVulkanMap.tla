----------------------------- MODULE MCVulkanMap -----------------------------
(***************************************************************************)
(* Two VulkanMaps made with one processor, of documents that fail in every *)
(* way: the elements are those of MCXmlProcessor.                          *)
(***************************************************************************)
EXTENDS VulkanMap, MCXmlProcessor
=============================================================================
