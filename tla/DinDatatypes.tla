---------------------------- MODULE DinDatatypes ----------------------------
(*****************************************************************************)
(* The messages of DIN 70121 as dinEXIDatatypes.h declares them: for each    *)
(* struct the content model that its comment repeats from the XML schema,    *)
(* with the type and the room of every field; and which _isUsed flags and    *)
(* array lengths the init function of the struct resets (dinEXIDatatypes.c). *)
(* Functions that reset nothing are left out.                                *)
(*****************************************************************************)
EXTENDS ExiGrammar

\* Content models.
dinSessionSetupReqType == Elements(<<>>, Field("EVCCID", Bytes))
dinCanonicalizationMethodType == Mixed(<<Attribute("Algorithm", Characters)>>, Many(Wildcard))
dinSPKIDataType == Elements(<<>>, Some(All(<<Array("SPKISexp", Bytes, 1), Opt(Wildcard)>>)))
dinListOfRootCertificateIDsType == Elements(<<>>, Some(Array("RootCertificateID", Characters, 5)))
dinTransformType ==
  Mixed(<<Attribute("Algorithm", Characters)>>,
    Many(One(<<Wildcard, Array("XPath", Characters, 1)>>)))
dinContractAuthenticationReqType ==
  Elements(<<OptAttribute("Id", Characters)>>, Opt(Marked("GenChallenge", Characters)))
dinEVSEChargeParameterType == Empty
dinRelativeTimeIntervalType ==
  Elements(<<>>, All(<<Field("start", Unsigned(32)), Opt(Marked("duration", Unsigned(32)))>>))
dinEVStatusType == Empty
dinDSAKeyValueType ==
  Elements(<<>>,
    All(<<
      Opt(All(<<Marked("P", Bytes), Marked("Q", Bytes)>>)), Opt(Marked("G", Bytes)),
      Field("Y", Bytes), Opt(Marked("J", Bytes)),
      Opt(All(<<Marked("Seed", Bytes), Marked("PgenCounter", Bytes)>>))>>))
dinSASchedulesType == Empty
dinEVChargeParameterType == Empty
dinBodyBaseType == Empty
dinIntervalType == Empty
dinTransformsType == Elements(<<>>, Some(Array("Transform", Struct("dinTransformType"), 1)))
dinEntryType ==
  Elements(<<>>,
    One(<<
      Marked("RelativeTimeInterval", Struct("dinRelativeTimeIntervalType")),
      Marked("TimeInterval", Struct("dinIntervalType"))>>))
dinSessionStopType == Empty
dinServiceDetailReqType == Elements(<<>>, Field("ServiceID", Unsigned(16)))
dinDigestMethodType == Mixed(<<Attribute("Algorithm", Characters)>>, Many(Wildcard))
dinChargingStatusReqType == Empty
dinSignatureMethodType ==
  Mixed(<<Attribute("Algorithm", Characters)>>,
    All(<<Opt(Marked("HMACOutputLength", Signed(64))), Many(Wildcard)>>))
dinCertificateInstallationReqType ==
  Elements(<<OptAttribute("Id", Characters)>>,
    All(<<
      Field("OEMProvisioningCert", Bytes),
      Field("ListOfRootCertificateIDs", Struct("dinListOfRootCertificateIDsType")),
      Field("DHParams", Bytes)>>))
dinReferenceType ==
  Elements(<<OptAttribute("Id", Characters), OptAttribute("Type", Characters), OptAttribute("URI", Characters)>>,
    All(<<
      Opt(Marked("Transforms", Struct("dinTransformsType"))),
      Field("DigestMethod", Struct("dinDigestMethodType")), Field("DigestValue", Bytes)>>))
dinProfileEntryType ==
  Elements(<<>>,
    All(<<
      Field("ChargingProfileEntryStart", Unsigned(32)),
      Field("ChargingProfileEntryMaxPower", Signed(16))>>))
dinRSAKeyValueType == Elements(<<>>, All(<<Field("Modulus", Bytes), Field("Exponent", Bytes)>>))
dinEVSEStatusType == Empty
dinEVPowerDeliveryParameterType == Empty
dinX509IssuerSerialType ==
  Elements(<<>>,
    All(<<Field("X509IssuerName", Characters), Field("X509SerialNumber", Signed(64))>>))
dinSelectedServiceType ==
  Elements(<<>>,
    All(<<Field("ServiceID", Unsigned(16)), Opt(Marked("ParameterSetID", Signed(16)))>>))
dinDC_EVStatusType ==
  Elements(<<>>,
    All(<<
      Field("EVReady", Bool), Opt(Marked("EVCabinConditioning", Bool)),
      Opt(Marked("EVRESSConditioning", Bool)), Field("EVErrorCode", Enum(12)),
      Field("EVRESSSOC", Ranged(0, 100))>>))
dinPhysicalValueType ==
  Elements(<<>>,
    All(<<
      Field("Multiplier", Ranged(-3, 3)), Opt(Marked("Unit", Enum(10))),
      Field("Value", Signed(16))>>))
dinManifestType ==
  Elements(<<OptAttribute("Id", Characters)>>,
    Some(Array("Reference", Struct("dinReferenceType"), 1)))
dinPMaxScheduleEntryType ==
  Elements(<<>>,
    All(<<
      One(<<
        Marked("RelativeTimeInterval", Struct("dinRelativeTimeIntervalType")),
        Marked("TimeInterval", Struct("dinIntervalType"))>>), Field("PMax", Signed(16))>>))
dinSignatureValueType == Simple(<<OptAttribute("Id", Characters)>>, Bytes)
dinPaymentOptionsType == Elements(<<>>, Some(Array("PaymentOption", Enum(2), 5)))
dinServiceTagType ==
  Elements(<<>>,
    All(<<
      Field("ServiceID", Unsigned(16)), Opt(Marked("ServiceName", Characters)),
      Field("ServiceCategory", Enum(4)), Opt(Marked("ServiceScope", Characters))>>))
dinAC_EVSEStatusType ==
  Elements(<<>>,
    All(<<
      Field("PowerSwitchClosed", Bool), Field("RCD", Bool),
      Field("NotificationMaxDelay", Unsigned(32)), Field("EVSENotification", Enum(3))>>))
dinChargingProfileType ==
  Elements(<<>>,
    All(<<
      Field("SAScheduleTupleID", Signed(16)),
      Some(Array("ProfileEntry", Struct("dinProfileEntryType"), 24))>>))
dinServiceDiscoveryReqType ==
  Elements(<<>>,
    All(<<Opt(Marked("ServiceScope", Characters)), Opt(Marked("ServiceCategory", Enum(4)))>>))
dinAC_EVSEChargeParameterType ==
  Elements(<<>>,
    All(<<
      Field("AC_EVSEStatus", Struct("dinAC_EVSEStatusType")),
      Field("EVSEMaxVoltage", Struct("dinPhysicalValueType")),
      Field("EVSEMaxCurrent", Struct("dinPhysicalValueType")),
      Field("EVSEMinCurrent", Struct("dinPhysicalValueType"))>>))
dinObjectType ==
  Mixed(<<OptAttribute("Encoding", Characters), OptAttribute("Id", Characters), OptAttribute("MimeType", Characters)>>,
    Many(Wildcard))
dinSessionStopResType == Elements(<<>>, Field("ResponseCode", Enum(23)))
dinSignedInfoType ==
  Elements(<<OptAttribute("Id", Characters)>>,
    All(<<
      Field("CanonicalizationMethod", Struct("dinCanonicalizationMethodType")),
      Field("SignatureMethod", Struct("dinSignatureMethodType")),
      Some(Array("Reference", Struct("dinReferenceType"), 1))>>))
dinCostType ==
  Elements(<<>>,
    All(<<
      Field("costKind", Enum(3)), Field("amount", Unsigned(32)),
      Opt(Marked("amountMultiplier", Ranged(-3, 3)))>>))
dinServiceChargeType ==
  Elements(<<>>,
    All(<<
      All(<<Field("ServiceTag", Struct("dinServiceTagType")), Field("FreeService", Bool)>>),
      Field("EnergyTransferType", Enum(10))>>))
dinDC_EVSEStatusType ==
  Elements(<<>>,
    All(<<
      Opt(Marked("EVSEIsolationStatus", Enum(4))), Field("EVSEStatusCode", Enum(12)),
      Field("NotificationMaxDelay", Unsigned(32)), Field("EVSENotification", Enum(3))>>))
dinRetrievalMethodType ==
  Elements(<<OptAttribute("Type", Characters), OptAttribute("URI", Characters)>>,
    Opt(Marked("Transforms", Struct("dinTransformsType"))))
dinNotificationType ==
  Elements(<<>>, All(<<Field("FaultCode", Enum(3)), Opt(Marked("FaultMsg", Characters))>>))
dinPGPDataType ==
  Elements(<<>>,
    One(<<
      All(<<Marked("PGPKeyID", Bytes), Opt(Marked("PGPKeyPacket", Bytes)), Many(Wildcard)>>),
      All(<<Marked("PGPKeyPacket", Bytes), Many(Wildcard)>>)>>))
dinSignaturePropertyType ==
  Mixed(<<OptAttribute("Id", Characters), Attribute("Target", Characters)>>, Some(Wildcard))
dinMeterInfoType ==
  Elements(<<>>,
    All(<<
      Field("MeterID", Characters), Opt(Marked("MeterReading", Struct("dinPhysicalValueType"))),
      Opt(Marked("SigMeterReading", Bytes)), Opt(Marked("MeterStatus", Signed(16))),
      Opt(Marked("TMeter", Signed(64)))>>))
dinSubCertificatesType == Elements(<<>>, Some(Array("Certificate", Bytes, 5)))
dinMeteringReceiptReqType ==
  Elements(<<OptAttribute("Id", Characters)>>,
    All(<<
      Field("SessionID", Bytes), Opt(Marked("SAScheduleTupleID", Signed(16))),
      Field("MeterInfo", Struct("dinMeterInfoType"))>>))
dinPowerDeliveryResType ==
  Elements(<<>>,
    All(<<
      Field("ResponseCode", Enum(23)),
      One(<<
        Marked("AC_EVSEStatus", Struct("dinAC_EVSEStatusType")),
        Marked("DC_EVSEStatus", Struct("dinDC_EVSEStatusType")),
        Marked("EVSEStatus", Struct("dinEVSEStatusType"))>>)>>))
dinWeldingDetectionResType ==
  Elements(<<>>,
    All(<<
      Field("ResponseCode", Enum(23)), Field("DC_EVSEStatus", Struct("dinDC_EVSEStatusType")),
      Field("EVSEPresentVoltage", Struct("dinPhysicalValueType"))>>))
dinContractAuthenticationResType ==
  Elements(<<>>, All(<<Field("ResponseCode", Enum(23)), Field("EVSEProcessing", Enum(2))>>))
dinSelectedServiceListType ==
  Elements(<<>>, Some(Array("SelectedService", Struct("dinSelectedServiceType"), 16)))
dinCurrentDemandResType ==
  Elements(<<>>,
    All(<<
      Field("ResponseCode", Enum(23)), Field("DC_EVSEStatus", Struct("dinDC_EVSEStatusType")),
      Field("EVSEPresentVoltage", Struct("dinPhysicalValueType")),
      Field("EVSEPresentCurrent", Struct("dinPhysicalValueType")),
      Field("EVSECurrentLimitAchieved", Bool), Field("EVSEVoltageLimitAchieved", Bool),
      Field("EVSEPowerLimitAchieved", Bool),
      Opt(Marked("EVSEMaximumVoltageLimit", Struct("dinPhysicalValueType"))),
      Opt(Marked("EVSEMaximumCurrentLimit", Struct("dinPhysicalValueType"))),
      Opt(Marked("EVSEMaximumPowerLimit", Struct("dinPhysicalValueType")))>>))
dinAC_EVChargeParameterType ==
  Elements(<<>>,
    All(<<
      Field("DepartureTime", Unsigned(32)), Field("EAmount", Struct("dinPhysicalValueType")),
      Field("EVMaxVoltage", Struct("dinPhysicalValueType")),
      Field("EVMaxCurrent", Struct("dinPhysicalValueType")),
      Field("EVMinCurrent", Struct("dinPhysicalValueType"))>>))
dinX509DataType ==
  Elements(<<>>,
    Some(
      One(<<
        Array("X509IssuerSerial", Struct("dinX509IssuerSerialType"), 1),
        Array("X509SKI", Bytes, 1), Array("X509SubjectName", Characters, 1),
        Array("X509Certificate", Bytes, 1), Array("X509CRL", Bytes, 1), Wildcard>>)))
dinChargingStatusResType ==
  Elements(<<>>,
    All(<<
      Field("ResponseCode", Enum(23)), Field("EVSEID", Bytes),
      Field("SAScheduleTupleID", Signed(16)),
      Opt(Marked("EVSEMaxCurrent", Struct("dinPhysicalValueType"))),
      Opt(Marked("MeterInfo", Struct("dinMeterInfoType"))), Field("ReceiptRequired", Bool),
      Field("AC_EVSEStatus", Struct("dinAC_EVSEStatusType"))>>))
dinWeldingDetectionReqType == Elements(<<>>, Field("DC_EVStatus", Struct("dinDC_EVStatusType")))
dinSignaturePropertiesType ==
  Elements(<<OptAttribute("Id", Characters)>>,
    Some(Array("SignatureProperty", Struct("dinSignaturePropertyType"), 1)))
dinDC_EVPowerDeliveryParameterType ==
  Elements(<<>>,
    All(<<
      Field("DC_EVStatus", Struct("dinDC_EVStatusType")),
      Opt(Marked("BulkChargingComplete", Bool)), Field("ChargingComplete", Bool)>>))
dinCableCheckReqType == Elements(<<>>, Field("DC_EVStatus", Struct("dinDC_EVStatusType")))
dinDC_EVChargeParameterType ==
  Elements(<<>>,
    All(<<
      Field("DC_EVStatus", Struct("dinDC_EVStatusType")),
      Field("EVMaximumCurrentLimit", Struct("dinPhysicalValueType")),
      Opt(Marked("EVMaximumPowerLimit", Struct("dinPhysicalValueType"))),
      Field("EVMaximumVoltageLimit", Struct("dinPhysicalValueType")),
      Opt(Marked("EVEnergyCapacity", Struct("dinPhysicalValueType"))),
      Opt(Marked("EVEnergyRequest", Struct("dinPhysicalValueType"))),
      Opt(Marked("FullSOC", Ranged(0, 100))), Opt(Marked("BulkSOC", Ranged(0, 100)))>>))
dinPMaxScheduleType ==
  Elements(<<>>,
    All(<<
      Field("PMaxScheduleID", Signed(16)),
      Some(Array("PMaxScheduleEntry", Struct("dinPMaxScheduleEntryType"), 5))>>))
dinServicePaymentSelectionReqType ==
  Elements(<<>>,
    All(<<
      Field("SelectedPaymentOption", Enum(2)),
      Field("SelectedServiceList", Struct("dinSelectedServiceListType"))>>))
dinPreChargeResType ==
  Elements(<<>>,
    All(<<
      Field("ResponseCode", Enum(23)), Field("DC_EVSEStatus", Struct("dinDC_EVSEStatusType")),
      Field("EVSEPresentVoltage", Struct("dinPhysicalValueType"))>>))
dinDC_EVSEChargeParameterType ==
  Elements(<<>>,
    All(<<
      Field("DC_EVSEStatus", Struct("dinDC_EVSEStatusType")),
      Field("EVSEMaximumCurrentLimit", Struct("dinPhysicalValueType")),
      Opt(Marked("EVSEMaximumPowerLimit", Struct("dinPhysicalValueType"))),
      Field("EVSEMaximumVoltageLimit", Struct("dinPhysicalValueType")),
      Field("EVSEMinimumCurrentLimit", Struct("dinPhysicalValueType")),
      Field("EVSEMinimumVoltageLimit", Struct("dinPhysicalValueType")),
      Opt(Marked("EVSECurrentRegulationTolerance", Struct("dinPhysicalValueType"))),
      Field("EVSEPeakCurrentRipple", Struct("dinPhysicalValueType")),
      Opt(Marked("EVSEEnergyToBeDelivered", Struct("dinPhysicalValueType")))>>))
dinPaymentDetailsResType ==
  Elements(<<>>,
    All(<<
      Field("ResponseCode", Enum(23)), Field("GenChallenge", Characters),
      Field("DateTimeNow", Signed(64))>>))
dinKeyValueType ==
  Mixed(<<>>,
    One(<<
      Marked("DSAKeyValue", Struct("dinDSAKeyValueType")),
      Marked("RSAKeyValue", Struct("dinRSAKeyValueType")), Wildcard>>))
dinPowerDeliveryReqType ==
  Elements(<<>>,
    All(<<
      Field("ReadyToChargeState", Bool),
      Opt(Marked("ChargingProfile", Struct("dinChargingProfileType"))),
      Opt(
        One(<<
          Marked("DC_EVPowerDeliveryParameter", Struct("dinDC_EVPowerDeliveryParameterType")),
          Marked("EVPowerDeliveryParameter", Struct("dinEVPowerDeliveryParameterType"))>>))>>))
dinCertificateChainType ==
  Elements(<<>>,
    All(<<
      Field("Certificate", Bytes),
      Opt(Marked("SubCertificates", Struct("dinSubCertificatesType")))>>))
dinParameterType ==
  Elements(<<Attribute("Name", Characters), Attribute("ValueType", Enum(6))>>,
    One(<<
      Marked("boolValue", Bool), Marked("byteValue", Ranged(-128, 127)),
      Marked("shortValue", Signed(16)), Marked("intValue", Signed(32)),
      Marked("physicalValue", Struct("dinPhysicalValueType")),
      Marked("stringValue", Characters)>>))
dinParameterSetType ==
  Elements(<<>>,
    All(<<
      Field("ParameterSetID", Signed(16)),
      Some(Array("Parameter", Struct("dinParameterType"), 16))>>))
dinCurrentDemandReqType ==
  Elements(<<>>,
    All(<<
      Field("DC_EVStatus", Struct("dinDC_EVStatusType")),
      Field("EVTargetCurrent", Struct("dinPhysicalValueType")),
      Opt(Marked("EVMaximumVoltageLimit", Struct("dinPhysicalValueType"))),
      Opt(Marked("EVMaximumCurrentLimit", Struct("dinPhysicalValueType"))),
      Opt(Marked("EVMaximumPowerLimit", Struct("dinPhysicalValueType"))),
      Opt(Marked("BulkChargingComplete", Bool)), Field("ChargingComplete", Bool),
      Opt(Marked("RemainingTimeToFullSoC", Struct("dinPhysicalValueType"))),
      Opt(Marked("RemainingTimeToBulkSoC", Struct("dinPhysicalValueType"))),
      Field("EVTargetVoltage", Struct("dinPhysicalValueType"))>>))
dinPreChargeReqType ==
  Elements(<<>>,
    All(<<
      Field("DC_EVStatus", Struct("dinDC_EVStatusType")),
      Field("EVTargetVoltage", Struct("dinPhysicalValueType")),
      Field("EVTargetCurrent", Struct("dinPhysicalValueType"))>>))
dinChargeParameterDiscoveryReqType ==
  Elements(<<>>,
    All(<<
      Field("EVRequestedEnergyTransferType", Enum(6)),
      One(<<
        Marked("AC_EVChargeParameter", Struct("dinAC_EVChargeParameterType")),
        Marked("DC_EVChargeParameter", Struct("dinDC_EVChargeParameterType")),
        Marked("EVChargeParameter", Struct("dinEVChargeParameterType"))>>)>>))
dinConsumptionCostType ==
  Elements(<<>>,
    All(<<Field("startValue", Unsigned(32)), Many(Array("Cost", Struct("dinCostType"), 5))>>))
dinServiceType ==
  Elements(<<>>,
    All(<<Field("ServiceTag", Struct("dinServiceTagType")), Field("FreeService", Bool)>>))
dinServiceTagListType == Elements(<<>>, Some(Array("Service", Struct("dinServiceType"), 8)))
dinSessionSetupResType ==
  Elements(<<>>,
    All(<<
      Field("ResponseCode", Enum(23)), Field("EVSEID", Bytes),
      Opt(Marked("DateTimeNow", Signed(64)))>>))
dinMeteringReceiptResType ==
  Elements(<<>>,
    All(<<
      Field("ResponseCode", Enum(23)), Field("AC_EVSEStatus", Struct("dinAC_EVSEStatusType"))>>))
dinServiceParameterListType ==
  Elements(<<>>, Some(Array("ParameterSet", Struct("dinParameterSetType"), 1)))
dinCertificateUpdateReqType ==
  Elements(<<OptAttribute("Id", Characters)>>,
    All(<<
      Field("ContractSignatureCertChain", Struct("dinCertificateChainType")),
      Field("ContractID", Characters),
      Field("ListOfRootCertificateIDs", Struct("dinListOfRootCertificateIDsType")),
      Field("DHParams", Bytes)>>))
dinServicePaymentSelectionResType == Elements(<<>>, Field("ResponseCode", Enum(23)))
dinKeyInfoType ==
  Mixed(<<OptAttribute("Id", Characters)>>,
    Some(
      One(<<
        Array("KeyName", Characters, 1), Array("KeyValue", Struct("dinKeyValueType"), 1),
        Array("RetrievalMethod", Struct("dinRetrievalMethodType"), 1),
        Array("X509Data", Struct("dinX509DataType"), 1),
        Array("PGPData", Struct("dinPGPDataType"), 1),
        Array("SPKIData", Struct("dinSPKIDataType"), 1), Array("MgmtData", Characters, 1),
        Wildcard>>)))
dinPaymentDetailsReqType ==
  Elements(<<>>,
    All(<<
      Field("ContractID", Characters),
      Field("ContractSignatureCertChain", Struct("dinCertificateChainType"))>>))
dinCableCheckResType ==
  Elements(<<>>,
    All(<<
      Field("ResponseCode", Enum(23)), Field("DC_EVSEStatus", Struct("dinDC_EVSEStatusType")),
      Field("EVSEProcessing", Enum(2))>>))
dinCertificateInstallationResType ==
  Elements(<<Attribute("Id", Characters)>>,
    All(<<
      Field("ResponseCode", Enum(23)),
      Field("ContractSignatureCertChain", Struct("dinCertificateChainType")),
      Field("ContractSignatureEncryptedPrivateKey", Bytes), Field("DHParams", Bytes),
      Field("ContractID", Characters)>>))
dinServiceDetailResType ==
  Elements(<<>>,
    All(<<
      Field("ResponseCode", Enum(23)), Field("ServiceID", Unsigned(16)),
      Opt(Marked("ServiceParameterList", Struct("dinServiceParameterListType")))>>))
dinCertificateUpdateResType ==
  Elements(<<Attribute("Id", Characters)>>,
    All(<<
      Field("ResponseCode", Enum(23)),
      Field("ContractSignatureCertChain", Struct("dinCertificateChainType")),
      Field("ContractSignatureEncryptedPrivateKey", Bytes), Field("DHParams", Bytes),
      Field("ContractID", Characters), Field("RetryCounter", Signed(16))>>))
dinSalesTariffEntryType ==
  Elements(<<>>,
    All(<<
      One(<<
        Marked("RelativeTimeInterval", Struct("dinRelativeTimeIntervalType")),
        Marked("TimeInterval", Struct("dinIntervalType"))>>),
      All(<<
        Field("EPriceLevel", Ranged(0, 255)),
        Many(Array("ConsumptionCost", Struct("dinConsumptionCostType"), 5))>>)>>))
dinServiceDiscoveryResType ==
  Elements(<<>>,
    All(<<
      Field("ResponseCode", Enum(23)), Field("PaymentOptions", Struct("dinPaymentOptionsType")),
      Field("ChargeService", Struct("dinServiceChargeType")),
      Opt(Marked("ServiceList", Struct("dinServiceTagListType")))>>))
dinSignatureType ==
  Elements(<<OptAttribute("Id", Characters)>>,
    All(<<
      Field("SignedInfo", Struct("dinSignedInfoType")),
      Field("SignatureValue", Struct("dinSignatureValueType")),
      Opt(Marked("KeyInfo", Struct("dinKeyInfoType"))),
      Many(Array("Object", Struct("dinObjectType"), 1))>>))
dinSalesTariffType ==
  Elements(<<Attribute("Id", Characters)>>,
    All(<<
      Field("SalesTariffID", Signed(16)), Opt(Marked("SalesTariffDescription", Characters)),
      Field("NumEPriceLevels", Ranged(0, 255)),
      Some(Array("SalesTariffEntry", Struct("dinSalesTariffEntryType"), 5))>>))
dinMessageHeaderType ==
  Elements(<<>>,
    All(<<
      Field("SessionID", Bytes), Opt(Marked("Notification", Struct("dinNotificationType"))),
      Opt(Marked("Signature", Struct("dinSignatureType")))>>))
dinSAScheduleTupleType ==
  Elements(<<>>,
    All(<<
      Field("SAScheduleTupleID", Signed(16)),
      Field("PMaxSchedule", Struct("dinPMaxScheduleType")),
      Opt(Marked("SalesTariff", Struct("dinSalesTariffType")))>>))
dinSAScheduleListType ==
  Elements(<<>>, Some(Array("SAScheduleTuple", Struct("dinSAScheduleTupleType"), 5)))
dinChargeParameterDiscoveryResType ==
  Elements(<<>>,
    All(<<
      Field("ResponseCode", Enum(23)), Field("EVSEProcessing", Enum(2)),
      One(<<
        Marked("SAScheduleList", Struct("dinSAScheduleListType")),
        Marked("SASchedules", Struct("dinSASchedulesType"))>>),
      One(<<
        Marked("AC_EVSEChargeParameter", Struct("dinAC_EVSEChargeParameterType")),
        Marked("DC_EVSEChargeParameter", Struct("dinDC_EVSEChargeParameterType")),
        Marked("EVSEChargeParameter", Struct("dinEVSEChargeParameterType"))>>)>>))
dinBodyType ==
  Elements(<<>>,
    Opt(
      One(<<
        Marked("BodyElement", Struct("dinBodyBaseType")),
        Marked("CableCheckReq", Struct("dinCableCheckReqType")),
        Marked("CableCheckRes", Struct("dinCableCheckResType")),
        Marked("CertificateInstallationReq", Struct("dinCertificateInstallationReqType")),
        Marked("CertificateInstallationRes", Struct("dinCertificateInstallationResType")),
        Marked("CertificateUpdateReq", Struct("dinCertificateUpdateReqType")),
        Marked("CertificateUpdateRes", Struct("dinCertificateUpdateResType")),
        Marked("ChargeParameterDiscoveryReq", Struct("dinChargeParameterDiscoveryReqType")),
        Marked("ChargeParameterDiscoveryRes", Struct("dinChargeParameterDiscoveryResType")),
        Marked("ChargingStatusReq", Struct("dinChargingStatusReqType")),
        Marked("ChargingStatusRes", Struct("dinChargingStatusResType")),
        Marked("ContractAuthenticationReq", Struct("dinContractAuthenticationReqType")),
        Marked("ContractAuthenticationRes", Struct("dinContractAuthenticationResType")),
        Marked("CurrentDemandReq", Struct("dinCurrentDemandReqType")),
        Marked("CurrentDemandRes", Struct("dinCurrentDemandResType")),
        Marked("MeteringReceiptReq", Struct("dinMeteringReceiptReqType")),
        Marked("MeteringReceiptRes", Struct("dinMeteringReceiptResType")),
        Marked("PaymentDetailsReq", Struct("dinPaymentDetailsReqType")),
        Marked("PaymentDetailsRes", Struct("dinPaymentDetailsResType")),
        Marked("PowerDeliveryReq", Struct("dinPowerDeliveryReqType")),
        Marked("PowerDeliveryRes", Struct("dinPowerDeliveryResType")),
        Marked("PreChargeReq", Struct("dinPreChargeReqType")),
        Marked("PreChargeRes", Struct("dinPreChargeResType")),
        Marked("ServiceDetailReq", Struct("dinServiceDetailReqType")),
        Marked("ServiceDetailRes", Struct("dinServiceDetailResType")),
        Marked("ServiceDiscoveryReq", Struct("dinServiceDiscoveryReqType")),
        Marked("ServiceDiscoveryRes", Struct("dinServiceDiscoveryResType")),
        Marked("ServicePaymentSelectionReq", Struct("dinServicePaymentSelectionReqType")),
        Marked("ServicePaymentSelectionRes", Struct("dinServicePaymentSelectionResType")),
        Marked("SessionSetupReq", Struct("dinSessionSetupReqType")),
        Marked("SessionSetupRes", Struct("dinSessionSetupResType")),
        Marked("SessionStopReq", Struct("dinSessionStopType")),
        Marked("SessionStopRes", Struct("dinSessionStopResType")),
        Marked("WeldingDetectionReq", Struct("dinWeldingDetectionReqType")),
        Marked("WeldingDetectionRes", Struct("dinWeldingDetectionResType"))>>)))
dinAnonType_V2G_Message ==
  Elements(<<>>,
    All(<<
      Field("Header", Struct("dinMessageHeaderType")), Field("Body", Struct("dinBodyType"))>>))

\* A document is any of the global elements.
dinEXIDocument == Elements(<<>>, One(<<
  Marked("AC_EVChargeParameter", Struct("dinAC_EVChargeParameterType")),
  Marked("AC_EVSEChargeParameter", Struct("dinAC_EVSEChargeParameterType")),
  Marked("AC_EVSEStatus", Struct("dinAC_EVSEStatusType")),
  Marked("BodyElement", Struct("dinBodyBaseType")),
  Marked("CableCheckReq", Struct("dinCableCheckReqType")),
  Marked("CableCheckRes", Struct("dinCableCheckResType")),
  Marked("CanonicalizationMethod", Struct("dinCanonicalizationMethodType")),
  Marked("CertificateInstallationReq", Struct("dinCertificateInstallationReqType")),
  Marked("CertificateInstallationRes", Struct("dinCertificateInstallationResType")),
  Marked("CertificateUpdateReq", Struct("dinCertificateUpdateReqType")),
  Marked("CertificateUpdateRes", Struct("dinCertificateUpdateResType")),
  Marked("ChargeParameterDiscoveryReq", Struct("dinChargeParameterDiscoveryReqType")),
  Marked("ChargeParameterDiscoveryRes", Struct("dinChargeParameterDiscoveryResType")),
  Marked("ChargingStatusReq", Struct("dinChargingStatusReqType")),
  Marked("ChargingStatusRes", Struct("dinChargingStatusResType")),
  Marked("ContractAuthenticationReq", Struct("dinContractAuthenticationReqType")),
  Marked("ContractAuthenticationRes", Struct("dinContractAuthenticationResType")),
  Marked("CurrentDemandReq", Struct("dinCurrentDemandReqType")),
  Marked("CurrentDemandRes", Struct("dinCurrentDemandResType")),
  Marked("DC_EVChargeParameter", Struct("dinDC_EVChargeParameterType")),
  Marked("DC_EVPowerDeliveryParameter", Struct("dinDC_EVPowerDeliveryParameterType")),
  Marked("DC_EVSEChargeParameter", Struct("dinDC_EVSEChargeParameterType")),
  Marked("DC_EVSEStatus", Struct("dinDC_EVSEStatusType")),
  Marked("DC_EVStatus", Struct("dinDC_EVStatusType")),
  Marked("DSAKeyValue", Struct("dinDSAKeyValueType")),
  Marked("DigestMethod", Struct("dinDigestMethodType")), Marked("DigestValue", Bytes),
  Marked("EVChargeParameter", Struct("dinEVChargeParameterType")),
  Marked("EVPowerDeliveryParameter", Struct("dinEVPowerDeliveryParameterType")),
  Marked("EVSEChargeParameter", Struct("dinEVSEChargeParameterType")),
  Marked("EVSEStatus", Struct("dinEVSEStatusType")),
  Marked("EVStatus", Struct("dinEVStatusType")), Marked("Entry", Struct("dinEntryType")),
  Marked("KeyInfo", Struct("dinKeyInfoType")), Marked("KeyName", Characters),
  Marked("KeyValue", Struct("dinKeyValueType")), Marked("Manifest", Struct("dinManifestType")),
  Marked("MeteringReceiptReq", Struct("dinMeteringReceiptReqType")),
  Marked("MeteringReceiptRes", Struct("dinMeteringReceiptResType")),
  Marked("MgmtData", Characters), Marked("Object", Struct("dinObjectType")),
  Marked("PGPData", Struct("dinPGPDataType")),
  Marked("PMaxScheduleEntry", Struct("dinPMaxScheduleEntryType")),
  Marked("PaymentDetailsReq", Struct("dinPaymentDetailsReqType")),
  Marked("PaymentDetailsRes", Struct("dinPaymentDetailsResType")),
  Marked("PowerDeliveryReq", Struct("dinPowerDeliveryReqType")),
  Marked("PowerDeliveryRes", Struct("dinPowerDeliveryResType")),
  Marked("PreChargeReq", Struct("dinPreChargeReqType")),
  Marked("PreChargeRes", Struct("dinPreChargeResType")),
  Marked("RSAKeyValue", Struct("dinRSAKeyValueType")),
  Marked("Reference", Struct("dinReferenceType")),
  Marked("RelativeTimeInterval", Struct("dinRelativeTimeIntervalType")),
  Marked("RetrievalMethod", Struct("dinRetrievalMethodType")),
  Marked("SAScheduleList", Struct("dinSAScheduleListType")),
  Marked("SASchedules", Struct("dinSASchedulesType")),
  Marked("SPKIData", Struct("dinSPKIDataType")),
  Marked("SalesTariffEntry", Struct("dinSalesTariffEntryType")),
  Marked("ServiceCharge", Struct("dinServiceChargeType")),
  Marked("ServiceDetailReq", Struct("dinServiceDetailReqType")),
  Marked("ServiceDetailRes", Struct("dinServiceDetailResType")),
  Marked("ServiceDiscoveryReq", Struct("dinServiceDiscoveryReqType")),
  Marked("ServiceDiscoveryRes", Struct("dinServiceDiscoveryResType")),
  Marked("ServicePaymentSelectionReq", Struct("dinServicePaymentSelectionReqType")),
  Marked("ServicePaymentSelectionRes", Struct("dinServicePaymentSelectionResType")),
  Marked("SessionSetupReq", Struct("dinSessionSetupReqType")),
  Marked("SessionSetupRes", Struct("dinSessionSetupResType")),
  Marked("SessionStopReq", Struct("dinSessionStopType")),
  Marked("SessionStopRes", Struct("dinSessionStopResType")),
  Marked("Signature", Struct("dinSignatureType")),
  Marked("SignatureMethod", Struct("dinSignatureMethodType")),
  Marked("SignatureProperties", Struct("dinSignaturePropertiesType")),
  Marked("SignatureProperty", Struct("dinSignaturePropertyType")),
  Marked("SignatureValue", Struct("dinSignatureValueType")),
  Marked("SignedInfo", Struct("dinSignedInfoType")),
  Marked("TimeInterval", Struct("dinIntervalType")),
  Marked("Transform", Struct("dinTransformType")),
  Marked("Transforms", Struct("dinTransformsType")),
  Marked("V2G_Message", Struct("dinAnonType_V2G_Message")),
  Marked("WeldingDetectionReq", Struct("dinWeldingDetectionReqType")),
  Marked("WeldingDetectionRes", Struct("dinWeldingDetectionResType")),
  Marked("X509Data", Struct("dinX509DataType"))>>))

DinTypes == [
  dinSessionSetupReqType |-> dinSessionSetupReqType,
  dinCanonicalizationMethodType |-> dinCanonicalizationMethodType,
  dinSPKIDataType |-> dinSPKIDataType,
  dinListOfRootCertificateIDsType |-> dinListOfRootCertificateIDsType,
  dinTransformType |-> dinTransformType,
  dinContractAuthenticationReqType |-> dinContractAuthenticationReqType,
  dinEVSEChargeParameterType |-> dinEVSEChargeParameterType,
  dinRelativeTimeIntervalType |-> dinRelativeTimeIntervalType,
  dinEVStatusType |-> dinEVStatusType, dinDSAKeyValueType |-> dinDSAKeyValueType,
  dinSASchedulesType |-> dinSASchedulesType,
  dinEVChargeParameterType |-> dinEVChargeParameterType, dinBodyBaseType |-> dinBodyBaseType,
  dinIntervalType |-> dinIntervalType, dinTransformsType |-> dinTransformsType,
  dinEntryType |-> dinEntryType, dinSessionStopType |-> dinSessionStopType,
  dinServiceDetailReqType |-> dinServiceDetailReqType,
  dinDigestMethodType |-> dinDigestMethodType,
  dinChargingStatusReqType |-> dinChargingStatusReqType,
  dinSignatureMethodType |-> dinSignatureMethodType,
  dinCertificateInstallationReqType |-> dinCertificateInstallationReqType,
  dinReferenceType |-> dinReferenceType, dinProfileEntryType |-> dinProfileEntryType,
  dinRSAKeyValueType |-> dinRSAKeyValueType, dinEVSEStatusType |-> dinEVSEStatusType,
  dinEVPowerDeliveryParameterType |-> dinEVPowerDeliveryParameterType,
  dinX509IssuerSerialType |-> dinX509IssuerSerialType,
  dinSelectedServiceType |-> dinSelectedServiceType, dinDC_EVStatusType |-> dinDC_EVStatusType,
  dinPhysicalValueType |-> dinPhysicalValueType, dinManifestType |-> dinManifestType,
  dinPMaxScheduleEntryType |-> dinPMaxScheduleEntryType,
  dinSignatureValueType |-> dinSignatureValueType,
  dinPaymentOptionsType |-> dinPaymentOptionsType, dinServiceTagType |-> dinServiceTagType,
  dinAC_EVSEStatusType |-> dinAC_EVSEStatusType,
  dinChargingProfileType |-> dinChargingProfileType,
  dinServiceDiscoveryReqType |-> dinServiceDiscoveryReqType,
  dinAC_EVSEChargeParameterType |-> dinAC_EVSEChargeParameterType,
  dinObjectType |-> dinObjectType, dinSessionStopResType |-> dinSessionStopResType,
  dinSignedInfoType |-> dinSignedInfoType, dinCostType |-> dinCostType,
  dinServiceChargeType |-> dinServiceChargeType, dinDC_EVSEStatusType |-> dinDC_EVSEStatusType,
  dinRetrievalMethodType |-> dinRetrievalMethodType, dinNotificationType |-> dinNotificationType,
  dinPGPDataType |-> dinPGPDataType, dinSignaturePropertyType |-> dinSignaturePropertyType,
  dinMeterInfoType |-> dinMeterInfoType, dinSubCertificatesType |-> dinSubCertificatesType,
  dinMeteringReceiptReqType |-> dinMeteringReceiptReqType,
  dinPowerDeliveryResType |-> dinPowerDeliveryResType,
  dinWeldingDetectionResType |-> dinWeldingDetectionResType,
  dinContractAuthenticationResType |-> dinContractAuthenticationResType,
  dinSelectedServiceListType |-> dinSelectedServiceListType,
  dinCurrentDemandResType |-> dinCurrentDemandResType,
  dinAC_EVChargeParameterType |-> dinAC_EVChargeParameterType,
  dinX509DataType |-> dinX509DataType, dinChargingStatusResType |-> dinChargingStatusResType,
  dinWeldingDetectionReqType |-> dinWeldingDetectionReqType,
  dinSignaturePropertiesType |-> dinSignaturePropertiesType,
  dinDC_EVPowerDeliveryParameterType |-> dinDC_EVPowerDeliveryParameterType,
  dinCableCheckReqType |-> dinCableCheckReqType,
  dinDC_EVChargeParameterType |-> dinDC_EVChargeParameterType,
  dinPMaxScheduleType |-> dinPMaxScheduleType,
  dinServicePaymentSelectionReqType |-> dinServicePaymentSelectionReqType,
  dinPreChargeResType |-> dinPreChargeResType,
  dinDC_EVSEChargeParameterType |-> dinDC_EVSEChargeParameterType,
  dinPaymentDetailsResType |-> dinPaymentDetailsResType, dinKeyValueType |-> dinKeyValueType,
  dinPowerDeliveryReqType |-> dinPowerDeliveryReqType,
  dinCertificateChainType |-> dinCertificateChainType, dinParameterType |-> dinParameterType,
  dinParameterSetType |-> dinParameterSetType,
  dinCurrentDemandReqType |-> dinCurrentDemandReqType,
  dinPreChargeReqType |-> dinPreChargeReqType,
  dinChargeParameterDiscoveryReqType |-> dinChargeParameterDiscoveryReqType,
  dinConsumptionCostType |-> dinConsumptionCostType, dinServiceType |-> dinServiceType,
  dinServiceTagListType |-> dinServiceTagListType,
  dinSessionSetupResType |-> dinSessionSetupResType,
  dinMeteringReceiptResType |-> dinMeteringReceiptResType,
  dinServiceParameterListType |-> dinServiceParameterListType,
  dinCertificateUpdateReqType |-> dinCertificateUpdateReqType,
  dinServicePaymentSelectionResType |-> dinServicePaymentSelectionResType,
  dinKeyInfoType |-> dinKeyInfoType, dinPaymentDetailsReqType |-> dinPaymentDetailsReqType,
  dinCableCheckResType |-> dinCableCheckResType,
  dinCertificateInstallationResType |-> dinCertificateInstallationResType,
  dinServiceDetailResType |-> dinServiceDetailResType,
  dinCertificateUpdateResType |-> dinCertificateUpdateResType,
  dinSalesTariffEntryType |-> dinSalesTariffEntryType,
  dinServiceDiscoveryResType |-> dinServiceDiscoveryResType,
  dinSignatureType |-> dinSignatureType, dinSalesTariffType |-> dinSalesTariffType,
  dinMessageHeaderType |-> dinMessageHeaderType,
  dinSAScheduleTupleType |-> dinSAScheduleTupleType,
  dinSAScheduleListType |-> dinSAScheduleListType,
  dinChargeParameterDiscoveryResType |-> dinChargeParameterDiscoveryResType,
  dinBodyType |-> dinBodyType, dinAnonType_V2G_Message |-> dinAnonType_V2G_Message,
  dinEXIDocument |-> dinEXIDocument]

\* What the init functions reset.
init_dinEXIDocument ==
  {"BodyElement", "V2G_Message", "SignatureProperty", "DSAKeyValue", "SignatureProperties",
   "KeyValue", "Transforms", "DigestMethod", "Signature", "RetrievalMethod", "Manifest",
   "Reference", "CanonicalizationMethod", "RSAKeyValue", "Transform", "PGPData", "MgmtData",
   "SignatureMethod", "KeyInfo", "SPKIData", "X509Data", "SignatureValue", "KeyName",
   "DigestValue", "SignedInfo", "Object", "DC_EVSEStatus", "RelativeTimeInterval",
   "SalesTariffEntry", "DC_EVPowerDeliveryParameter", "SASchedules", "AC_EVChargeParameter",
   "SAScheduleList", "DC_EVStatus", "ServiceCharge", "EVStatus", "DC_EVChargeParameter",
   "DC_EVSEChargeParameter", "EVSEStatus", "TimeInterval", "EVPowerDeliveryParameter",
   "EVSEChargeParameter", "AC_EVSEStatus", "Entry", "AC_EVSEChargeParameter", "PMaxScheduleEntry",
   "EVChargeParameter", "ServiceDiscoveryReq", "ServiceDiscoveryRes", "MeteringReceiptReq",
   "PaymentDetailsReq", "MeteringReceiptRes", "PaymentDetailsRes", "SessionSetupReq",
   "SessionSetupRes", "CableCheckReq", "CableCheckRes", "ContractAuthenticationReq",
   "CertificateInstallationReq", "ContractAuthenticationRes", "CertificateInstallationRes",
   "WeldingDetectionReq", "WeldingDetectionRes", "CertificateUpdateReq", "CertificateUpdateRes",
   "PowerDeliveryReq", "PowerDeliveryRes", "ChargingStatusReq", "ChargingStatusRes",
   "CurrentDemandReq", "PreChargeReq", "CurrentDemandRes", "PreChargeRes",
   "ServicePaymentSelectionReq", "SessionStopReq", "ServicePaymentSelectionRes", "SessionStopRes",
   "ChargeParameterDiscoveryReq", "ChargeParameterDiscoveryRes", "ServiceDetailReq",
   "ServiceDetailRes"}
init_dinMeteringReceiptReqType == {"Id", "SAScheduleTupleID"}
init_dinBodyType ==
  {"BodyElement", "SessionSetupReq", "SessionSetupRes", "ServiceDiscoveryReq",
   "ServiceDiscoveryRes", "ServiceDetailReq", "ServiceDetailRes", "ServicePaymentSelectionReq",
   "ServicePaymentSelectionRes", "PaymentDetailsReq", "PaymentDetailsRes",
   "ContractAuthenticationReq", "ContractAuthenticationRes", "ChargeParameterDiscoveryReq",
   "ChargeParameterDiscoveryRes", "PowerDeliveryReq", "PowerDeliveryRes", "ChargingStatusReq",
   "ChargingStatusRes", "MeteringReceiptReq", "MeteringReceiptRes", "SessionStopReq",
   "SessionStopRes", "CertificateUpdateReq", "CertificateUpdateRes", "CertificateInstallationReq",
   "CertificateInstallationRes", "CableCheckReq", "CableCheckRes", "PreChargeReq", "PreChargeRes",
   "CurrentDemandReq", "CurrentDemandRes", "WeldingDetectionReq", "WeldingDetectionRes"}
init_dinPowerDeliveryResType == {"EVSEStatus", "AC_EVSEStatus", "DC_EVSEStatus"}
init_dinServiceDetailResType == {"ServiceParameterList"}
init_dinCanonicalizationMethodType == {"ANY"}
init_dinSPKIDataType == {"SPKISexp", "ANY"}
init_dinListOfRootCertificateIDsType == {"RootCertificateID"}
init_dinSelectedServiceListType == {"SelectedService"}
init_dinCurrentDemandResType ==
  {"EVSEMaximumVoltageLimit", "EVSEMaximumCurrentLimit", "EVSEMaximumPowerLimit"}
init_dinTransformType == {"ANY", "XPath"}
init_dinX509DataType ==
  {"X509IssuerSerial", "X509SKI", "X509SubjectName", "X509Certificate", "X509CRL", "ANY"}
init_dinChargingStatusResType == {"EVSEMaxCurrent", "MeterInfo"}
init_dinSignaturePropertiesType == {"Id", "SignatureProperty"}
init_dinContractAuthenticationReqType == {"Id", "GenChallenge"}
init_dinDC_EVPowerDeliveryParameterType == {"BulkChargingComplete"}
init_dinDC_EVChargeParameterType ==
  {"EVMaximumPowerLimit", "EVEnergyCapacity", "EVEnergyRequest", "FullSOC", "BulkSOC"}
init_dinSAScheduleListType == {"SAScheduleTuple"}
init_dinPMaxScheduleType == {"PMaxScheduleEntry"}
init_dinRelativeTimeIntervalType == {"duration"}
init_dinDC_EVSEChargeParameterType ==
  {"EVSEMaximumPowerLimit", "EVSECurrentRegulationTolerance", "EVSEEnergyToBeDelivered"}
init_dinDSAKeyValueType == {"P", "Q", "G", "J", "Seed", "PgenCounter"}
init_dinMessageHeaderType == {"Notification", "Signature"}
init_dinKeyValueType == {"DSAKeyValue", "RSAKeyValue", "ANY"}
init_dinChargeParameterDiscoveryResType ==
  {"SASchedules", "SAScheduleList", "EVSEChargeParameter", "AC_EVSEChargeParameter",
   "DC_EVSEChargeParameter"}
init_dinPowerDeliveryReqType ==
  {"ChargingProfile", "EVPowerDeliveryParameter", "DC_EVPowerDeliveryParameter"}
init_dinCertificateChainType == {"SubCertificates"}
init_dinTransformsType == {"Transform"}
init_dinEntryType == {"TimeInterval", "RelativeTimeInterval"}
init_dinDigestMethodType == {"ANY"}
init_dinParameterType ==
  {"boolValue", "byteValue", "shortValue", "intValue", "physicalValue", "stringValue"}
init_dinSignatureMethodType == {"HMACOutputLength", "ANY"}
init_dinCertificateInstallationReqType == {"Id"}
init_dinSalesTariffEntryType == {"TimeInterval", "RelativeTimeInterval", "ConsumptionCost"}
init_dinServiceDiscoveryResType == {"ServiceList"}
init_dinParameterSetType == {"Parameter"}
init_dinCurrentDemandReqType ==
  {"EVMaximumVoltageLimit", "EVMaximumCurrentLimit", "EVMaximumPowerLimit",
   "BulkChargingComplete", "RemainingTimeToFullSoC", "RemainingTimeToBulkSoC"}
init_dinSignatureType == {"Id", "KeyInfo", "Object"}
init_dinReferenceType == {"Id", "URI", "Type", "Transforms"}
init_dinChargeParameterDiscoveryReqType ==
  {"EVChargeParameter", "AC_EVChargeParameter", "DC_EVChargeParameter"}
init_dinConsumptionCostType == {"Cost"}
init_dinServiceTagListType == {"Service"}
init_dinSessionSetupResType == {"DateTimeNow"}
init_dinSelectedServiceType == {"ParameterSetID"}
\* A mutant: a flag is not reset.
init_dinDC_EVStatusType_OneForgotten == {"EVCabinConditioning"}
init_dinDC_EVStatusType == {"EVCabinConditioning", "EVRESSConditioning"}
init_dinPhysicalValueType == {"Unit"}
init_dinManifestType == {"Id", "Reference"}
init_dinPMaxScheduleEntryType == {"TimeInterval", "RelativeTimeInterval"}
init_dinServiceParameterListType == {"ParameterSet"}
init_dinSignatureValueType == {"Id"}
init_dinPaymentOptionsType == {"PaymentOption"}
init_dinServiceTagType == {"ServiceName", "ServiceScope"}
init_dinCertificateUpdateReqType == {"Id"}
init_dinSAScheduleTupleType == {"SalesTariff"}
init_dinChargingProfileType == {"ProfileEntry"}
init_dinServiceDiscoveryReqType == {"ServiceScope", "ServiceCategory"}
init_dinKeyInfoType ==
  {"Id", "KeyName", "KeyValue", "RetrievalMethod", "X509Data", "PGPData", "SPKIData", "MgmtData",
   "ANY"}
init_dinObjectType == {"Id", "MimeType", "Encoding", "ANY"}
init_dinSignedInfoType == {"Id", "Reference"}
init_dinSalesTariffType == {"SalesTariffDescription", "SalesTariffEntry"}
init_dinCostType == {"amountMultiplier"}
init_dinDC_EVSEStatusType == {"EVSEIsolationStatus"}
init_dinRetrievalMethodType == {"URI", "Type", "Transforms"}
init_dinNotificationType == {"FaultMsg"}
init_dinPGPDataType == {"PGPKeyID", "PGPKeyPacket", "ANY"}
init_dinSignaturePropertyType == {"Id", "ANY"}
init_dinMeterInfoType == {"MeterReading", "SigMeterReading", "MeterStatus", "TMeter"}
init_dinSubCertificatesType == {"Certificate"}

DinInit == [
  dinEXIDocument |-> init_dinEXIDocument,
  dinMeteringReceiptReqType |-> init_dinMeteringReceiptReqType, dinBodyType |-> init_dinBodyType,
  dinPowerDeliveryResType |-> init_dinPowerDeliveryResType,
  dinServiceDetailResType |-> init_dinServiceDetailResType,
  dinCanonicalizationMethodType |-> init_dinCanonicalizationMethodType,
  dinSPKIDataType |-> init_dinSPKIDataType,
  dinListOfRootCertificateIDsType |-> init_dinListOfRootCertificateIDsType,
  dinSelectedServiceListType |-> init_dinSelectedServiceListType,
  dinCurrentDemandResType |-> init_dinCurrentDemandResType,
  dinTransformType |-> init_dinTransformType, dinX509DataType |-> init_dinX509DataType,
  dinChargingStatusResType |-> init_dinChargingStatusResType,
  dinSignaturePropertiesType |-> init_dinSignaturePropertiesType,
  dinContractAuthenticationReqType |-> init_dinContractAuthenticationReqType,
  dinDC_EVPowerDeliveryParameterType |-> init_dinDC_EVPowerDeliveryParameterType,
  dinDC_EVChargeParameterType |-> init_dinDC_EVChargeParameterType,
  dinSAScheduleListType |-> init_dinSAScheduleListType,
  dinPMaxScheduleType |-> init_dinPMaxScheduleType,
  dinRelativeTimeIntervalType |-> init_dinRelativeTimeIntervalType,
  dinDC_EVSEChargeParameterType |-> init_dinDC_EVSEChargeParameterType,
  dinDSAKeyValueType |-> init_dinDSAKeyValueType,
  dinMessageHeaderType |-> init_dinMessageHeaderType, dinKeyValueType |-> init_dinKeyValueType,
  dinChargeParameterDiscoveryResType |-> init_dinChargeParameterDiscoveryResType,
  dinPowerDeliveryReqType |-> init_dinPowerDeliveryReqType,
  dinCertificateChainType |-> init_dinCertificateChainType,
  dinTransformsType |-> init_dinTransformsType, dinEntryType |-> init_dinEntryType,
  dinDigestMethodType |-> init_dinDigestMethodType, dinParameterType |-> init_dinParameterType,
  dinSignatureMethodType |-> init_dinSignatureMethodType,
  dinCertificateInstallationReqType |-> init_dinCertificateInstallationReqType,
  dinSalesTariffEntryType |-> init_dinSalesTariffEntryType,
  dinServiceDiscoveryResType |-> init_dinServiceDiscoveryResType,
  dinParameterSetType |-> init_dinParameterSetType,
  dinCurrentDemandReqType |-> init_dinCurrentDemandReqType,
  dinSignatureType |-> init_dinSignatureType, dinReferenceType |-> init_dinReferenceType,
  dinChargeParameterDiscoveryReqType |-> init_dinChargeParameterDiscoveryReqType,
  dinConsumptionCostType |-> init_dinConsumptionCostType,
  dinServiceTagListType |-> init_dinServiceTagListType,
  dinSessionSetupResType |-> init_dinSessionSetupResType,
  dinSelectedServiceType |-> init_dinSelectedServiceType,
  dinDC_EVStatusType |-> init_dinDC_EVStatusType,
  dinPhysicalValueType |-> init_dinPhysicalValueType, dinManifestType |-> init_dinManifestType,
  dinPMaxScheduleEntryType |-> init_dinPMaxScheduleEntryType,
  dinServiceParameterListType |-> init_dinServiceParameterListType,
  dinSignatureValueType |-> init_dinSignatureValueType,
  dinPaymentOptionsType |-> init_dinPaymentOptionsType,
  dinServiceTagType |-> init_dinServiceTagType,
  dinCertificateUpdateReqType |-> init_dinCertificateUpdateReqType,
  dinSAScheduleTupleType |-> init_dinSAScheduleTupleType,
  dinChargingProfileType |-> init_dinChargingProfileType,
  dinServiceDiscoveryReqType |-> init_dinServiceDiscoveryReqType,
  dinKeyInfoType |-> init_dinKeyInfoType, dinObjectType |-> init_dinObjectType,
  dinSignedInfoType |-> init_dinSignedInfoType, dinSalesTariffType |-> init_dinSalesTariffType,
  dinCostType |-> init_dinCostType, dinDC_EVSEStatusType |-> init_dinDC_EVSEStatusType,
  dinRetrievalMethodType |-> init_dinRetrievalMethodType,
  dinNotificationType |-> init_dinNotificationType, dinPGPDataType |-> init_dinPGPDataType,
  dinSignaturePropertyType |-> init_dinSignaturePropertyType,
  dinMeterInfoType |-> init_dinMeterInfoType,
  dinSubCertificatesType |-> init_dinSubCertificatesType]
=============================================================================
