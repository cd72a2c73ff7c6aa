---------------------------- MODULE HubUploadMC ----------------------------
\* Model-checking instance of HubUpload.
EXTENDS HubUpload
=============================================================================
