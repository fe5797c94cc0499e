CONSTANTS
  Name <- MCName
  Glob <- MCGlob
  Slug = {"lib", "tool"}
  Sha = {1}
  Runtime = {"claude_code"}
  Provider = {"anthropic", "openai"}
  Drives <- MCDrives
  Repo = {"lib", "tool"}
  Upstream <- MCUpstream
  Package <- MCPackage
  Offer <- MCOffer
  PatchFile <- MCPatchFile
  MaxCommit = 3
  MaxEdit = 3
SPECIFICATION Spec
INVARIANT TypeOK
INVARIANT LandsWhole
INVARIANT MetadataIsPeoples
INVARIANT Confluent
INVARIANT AcceptedResolves
