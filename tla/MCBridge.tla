------------------------------ MODULE MCBridge ------------------------------
\* Two threads; of every kind of call one, since calls of a kind make the
\* same steps.  Two answers of each kind are enough to tell a retry from giving up.
EXTENDS Bridge

MCCalls == {"MxConnect", "MxConnectE2EE", "MxDisconnect", "MxSendMessage", "MxSendReaction",
            "MxSendImage", "MxSetGroupPhoto", "MxSendE2EEMessage", "MxSendE2EEReaction",
            "MxSendE2EEImage", "MxDownloadE2EEMedia", "MxGetUserInfo",
            "MxRegisterPushNotifications"}
=============================================================================
