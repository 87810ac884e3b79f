--------------------------- MODULE MCBundleAlerts ---------------------------
\* Small instances of BundleAlerts for TLC.  Two checks of equal standing, and no
\* symmetry: MCBundleAlerts.cfg checks a liveness property.
EXTENDS BundleAlerts
=============================================================================
