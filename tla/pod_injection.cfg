SPECIFICATION Spec
CONSTANTS
  PodAnnotations <- MCPodAnnotations
  VaultRoles <- MCVaultRoles
  ServiceAccount = "app"
  Namespace = "ns"
  ReservedChars = FALSE
INVARIANT TypeOK NriGivesWhatLegacyGives NoPlaceholderStarts AdmittedMeansSubstitutable OwnUuidPerDb OnlyBoundRoles PInv
